---- MODULE Spec2Model ----
(***************************************************************************)
(* Model of the cross-exchange quote feed and arbitrage detector:          *)
(*   - multi_exchange_arbitrage.py : simulated feeds, the shared store     *)
(*     latest_market_data and calculate_arbitrage_opportunities            *)
(*   - *_websocket_feed.py         : the connect / subscribe / receive /   *)
(*     reconnect loop of each exchange                                     *)
(*   - live_feed_manager.py        : parse_binance_message,                *)
(*     parse_okx_message and the consumer loop writing market_data         *)
(*   - feed_manager_concept.py     : parse_binance_data, parse_okx_ticker  *)
(* Prices are fixed-point numbers in hundredths; timestamps are records    *)
(* [sec, msec]; strings that the code inspects character by character are  *)
(* sequences of one-character strings.                                     *)
(***************************************************************************)
EXTENDS Integers, Sequences, FiniteSets, TLC

VARIABLES
    \* multi_exchange_arbitrage.py
    latest_market_data,     \* defaultdict(dict): symbol -> exchange -> OrderBookUpdate
    exchanges_to_compare,   \* argument of calculate_arbitrage_opportunities
    iterations,             \* argument of calculate_arbitrage_opportunities
    det_pc,                 \* position of calculate_arbitrage_opportunities
    det_i,                  \* number of cycles of its for loop begun so far
    printed,                \* lines printed by the most recent cycle
    sim_i,                  \* exchange -> iterations done by simulate_exchange_feed
    \* <exchange>_websocket_feed.py
    exchange,               \* which connect_<exchange>_ws is running
    pc,                     \* position of the connection manager
    attempts,               \* connection attempts made so far (saturating)
    waited,                 \* seconds slept in the current reconnect delay
    lastFailure,            \* what ended the previous connection or attempt
    output_queue,           \* (exchange, message) items put by the manager
    handled,                \* the latest pass of the inner loop: message, printed, sent
    elapsed,                \* seconds since last_ping_time (saturating at the interval)
    \* live_feed_manager.py
    data_queue,             \* multiprocessing.Queue of (exchange_name, raw_message)
    market_data,            \* dict: symbol -> exchange -> OrderBookUpdate
    lm_pc,                  \* position of the main block
    now,                    \* time.time(), in milliseconds
    raw,                    \* (exchange_name, raw_message) of the latest pass
    parsed_update,          \* what the parser call of the latest pass gave
    lastPut,                \* history: key -> the latest store write and their number
    arrival,                \* history: the items put on data_queue and the items taken, in order
    feed_processes,         \* list of the Process objects: name, state, target, visited
    \* the parsers called once more on the same message
    second,                 \* a second call of the parser: on what, when, result
    concept_update,         \* feed_manager_concept's parser: on what, result
    \* feed_manager_concept.py
    raw_data_output_queue,  \* multiprocessing.Queue of {'exchange_name', 'data'} packages
    unified_order_book_store, \* defaultdict(dict): symbol -> exchange -> OrderBookUpdate
    stop_event,             \* multiprocessing.Event: whether it is set
    concept_pc,             \* position of main_concept and process_raw_data
    caller,                 \* who called process_raw_data
    processed,              \* history: the passes of the loop that took a package
    timeouts                \* history: passes of the loop body that ended with stop_event set

detVars == <<latest_market_data, exchanges_to_compare, iterations, det_pc, det_i,
             printed, sim_i>>
connVars == <<exchange, pc, attempts, waited, lastFailure, output_queue, handled, elapsed>>
feedVars == <<data_queue, market_data, lm_pc, raw, parsed_update, lastPut, arrival, feed_processes>>
normVars == <<second, concept_update>>
conceptVars == <<raw_data_output_queue, unified_order_book_store, stop_event,
                 concept_pc, caller, processed, timeouts>>
vars == <<detVars, connVars, feedVars, normVars, conceptVars, now>>

(***************************************************************************)
(* Bounds of the model.                                                    *)
(***************************************************************************)
MaxIterations == 2      \* cycles of the detector (45 in the source)
MaxSimIterations == 1   \* updates of each simulated feed (50 in the source)
MaxAttempts == 2        \* the attempts counter saturates here
MaxQueue == 2           \* items waiting in a queue
MaxClock == 2           \* ticks of the clock, MsPerTick milliseconds each
MsPerTick == 1250       \* milliseconds the clock advances in one tick
MaxWrites == 2          \* the per-key count of store writes saturates here
MaxPuts == 3            \* items put on data_queue in one run of the main block

(***************************************************************************)
(* Values shared by the programs.                                          *)
(***************************************************************************)
None == [t |-> "none"]

\* common_data_structures.py: a timestamp in seconds, kept as [sec, msec]
Seconds(ms) == [sec |-> ms \div 1000, msec |-> ms % 1000]

\* OrderBookUpdate.__init__: timestamp defaults to time.time()
OrderBookUpdate(exchange_name, symbol, best_bid, best_ask, timestamp, clock) ==
    [t |-> "update",
     exchange_name |-> exchange_name,
     symbol |-> symbol,
     best_bid |-> best_bid,
     best_ask |-> best_ask,
     timestamp |-> IF timestamp # None THEN timestamp ELSE Seconds(clock)]

EmptyDict == [e \in {} |-> None]

\* d[symbol][exchange_name] = update, on a mapping symbol -> exchange -> update
StorePutWholeSymbol(store, update) ==
    [s \in DOMAIN store \cup {update.symbol} |->
        IF s = update.symbol
        THEN [e \in {update.exchange_name} |-> update]
        ELSE store[s]]

\* the update stored with the two keys the other way round
StorePutSwapped(store, update) ==
    [s \in DOMAIN store \cup {update.exchange_name} |->
        IF s = update.exchange_name
        THEN [e \in (IF s \in DOMAIN store THEN DOMAIN store[s] ELSE {})
                       \cup {update.symbol} |->
                 IF e = update.symbol THEN update ELSE store[s][e]]
        ELSE store[s]]

StorePut(store, update) ==
    [s \in DOMAIN store \cup {update.symbol} |->
        IF s = update.symbol
        THEN [e \in (IF s \in DOMAIN store THEN DOMAIN store[s] ELSE {})
                       \cup {update.exchange_name} |->
                 IF e = update.exchange_name THEN update ELSE store[s][e]]
        ELSE store[s]]

\* defaultdict(dict).__getitem__: reading a missing symbol inserts an empty dict
Touch(store, symbol) ==
    IF symbol \in DOMAIN store THEN store
    ELSE [s \in DOMAIN store \cup {symbol} |->
             IF s = symbol THEN EmptyDict ELSE store[s]]

\* store[symbol] on a plain dict: KeyError when the symbol is missing
GetSymbolPlainDict(store, symbol) ==
    [raised |-> symbol \notin DOMAIN store, store |-> store]

\* a store whose entries are dropped by the detector's read of the symbol
GetSymbolExpiring(store, symbol) ==
    [raised |-> FALSE,
     store |-> [s \in DOMAIN store \cup {symbol} |->
                    IF s = symbol THEN EmptyDict ELSE store[s]]]

\* store[symbol] on the defaultdict(dict) of multi_exchange_arbitrage.py
GetSymbol(store, symbol) ==
    [raised |-> FALSE, store |-> Touch(store, symbol)]

\* the entry under (symbol, exchange_name), None when there is none
Entry(store, symbol, exchange_name) ==
    IF symbol \in DOMAIN store /\ exchange_name \in DOMAIN store[symbol]
    THEN store[symbol][exchange_name]
    ELSE None

BTC_USDT == <<"B", "T", "C", "/", "U", "S", "D", "T">>

(***************************************************************************)
(* multi_exchange_arbitrage.py                                             *)
(***************************************************************************)
ARBITRAGE_THRESHOLD == 0

\* main: target_symbol and exchanges_config (prices in hundredths)
target_symbol == BTC_USDT

exchanges_config ==
    [Binance |-> [base_price |-> 6000000, volatility |-> 5000],
     Bybit   |-> [base_price |-> 6005000, volatility |-> 5500]]

SimExchanges == DOMAIN exchanges_config

\* exchange names a caller may list; "OKX" has no simulated feed
DetExchanges == SimExchanges \cup {"OKX"}

\* the lists given as exchanges_to_compare
ExchangeLists ==
    { << >>, <<"Binance">>, <<"Binance", "Bybit">>, <<"Bybit", "Binance">>,
      <<"Binance", "Binance">>, <<"Binance", "Bybit", "OKX">> }

\* prices of the quotes a caller's store may hold at the start
Prices == {10000, 10100, 10200, 10300}

\* random.uniform(-volatility, volatility), as a multiple of volatility
SimOffsets == {-1, 1}

\* random.uniform(0.0005, 0.0015), in basis points of the mid price
SpreadBps == {5, 15}

\* simulate_exchange_feed, lines 41-57: the update built in one iteration
SimUpdate(exchange_name, symbol, base_price, volatility, offset, bp, clock) ==
    LET mid_price == base_price + offset * volatility
        delta == ((mid_price \div 100) * bp) \div 100
        bid_price == mid_price - delta
        ask0 == mid_price + delta
        ask_price == IF bid_price >= ask0
                     THEN bid_price + base_price \div 10000
                     ELSE ask0
    IN OrderBookUpdate(exchange_name, symbol, bid_price, ask_price,
                       Seconds(clock), clock)

\* simulate_exchange_feed, lines 39-65: one iteration of the feed of exchange ex
SimFeedStep(ex) ==
    /\ sim_i[ex] < MaxSimIterations
    /\ \E offset \in SimOffsets, bp \in SpreadBps :
          latest_market_data' =
              StorePut(latest_market_data,
                       SimUpdate(ex, target_symbol, exchanges_config[ex].base_price,
                                 exchanges_config[ex].volatility, offset, bp, now))
    /\ sim_i' = [sim_i EXCEPT ![ex] = @ + 1]
    /\ UNCHANGED <<exchanges_to_compare, iterations, det_pc, det_i, printed>>
    /\ UNCHANGED <<connVars, feedVars, normVars, conceptVars, now>>

\* the updates collected by a detector that yields between its reads: the
\* last listed exchange is read after a write that moved its quote by 1.00
CurrentUpdatesTorn(store, symbol, names) ==
    IF names = << >> \/ \E k \in 1..Len(names) : names[k] \notin DOMAIN store[symbol]
    THEN EmptyDict
    ELSE [e \in { names[k] : k \in 1..Len(names) } |->
             IF e = names[Len(names)]
             THEN OrderBookUpdate(e, symbol, store[symbol][e].best_bid + 100,
                                  store[symbol][e].best_ask + 100,
                                  store[symbol][e].timestamp, 0)
             ELSE store[symbol][e]]

\* lines 88-94: the updates collected until the first exchange without data
RECURSIVE CurrentUpdates(_, _, _)
CurrentUpdates(store, symbol, names) ==
    IF names = << >> THEN EmptyDict
    ELSE IF Head(names) \in DOMAIN store[symbol]
         THEN LET rest == CurrentUpdates(store, symbol, Tail(names))
              IN [e \in DOMAIN rest \cup {Head(names)} |->
                     IF e \in DOMAIN rest THEN rest[e] ELSE store[symbol][e]]
         ELSE EmptyDict

\* lines 88-94: all_data_available after the loop
AllDataAvailable(store, symbol, names) ==
    \A k \in 1..Len(names) : names[k] \in DOMAIN store[symbol]

\* lines 88-99: whether the cycle is skipped
CycleSkipped(store, symbol, names) ==
    \/ ~AllDataAvailable(store, symbol, names)
    \/ Cardinality(DOMAIN CurrentUpdates(store, symbol, names)) < Len(names)

Found(i, symbol, buy, buyPrice, sell, sellPrice, spread) ==
    [kind |-> "found", iter |-> i, symbol |-> symbol,
     buyExchange |-> buy, buyPrice |-> buyPrice,
     sellExchange |-> sell, sellPrice |-> sellPrice, spread |-> spread]

NoArbitrage(i, symbol) == [kind |-> "none", iter |-> i, symbol |-> symbol]

\* lines 101-127: the lines one comparing cycle prints
CompareNonStrict(i, symbol, names, current_updates) ==
    LET ex_A_name == names[1]
        ex_B_name == names[2]
        update_A == current_updates[ex_A_name]
        update_B == current_updates[ex_B_name]
        spread_1 == update_B.best_bid - update_A.best_ask
        spread_2 == update_A.best_bid - update_B.best_ask
    IN  (IF spread_1 >= ARBITRAGE_THRESHOLD
         THEN {Found(i, symbol, ex_A_name, update_A.best_ask,
                     ex_B_name, update_B.best_bid, spread_1)}
         ELSE {})
        \cup
        (IF spread_2 >= ARBITRAGE_THRESHOLD
         THEN {Found(i, symbol, ex_B_name, update_B.best_ask,
                     ex_A_name, update_A.best_bid, spread_2)}
         ELSE {})

\* a comparison that looks at the second direction only when the first one
\* is not reported
CompareElif(i, symbol, names, current_updates) ==
    LET spread_1 == current_updates[names[2]].best_bid - current_updates[names[1]].best_ask
        spread_2 == current_updates[names[1]].best_bid - current_updates[names[2]].best_ask
    IN  IF spread_1 > ARBITRAGE_THRESHOLD
        THEN {Found(i, symbol, names[1], current_updates[names[1]].best_ask,
                    names[2], current_updates[names[2]].best_bid, spread_1)}
        ELSE IF spread_2 > ARBITRAGE_THRESHOLD
        THEN {Found(i, symbol, names[2], current_updates[names[2]].best_ask,
                    names[1], current_updates[names[1]].best_bid, spread_2)}
        ELSE {NoArbitrage(i, symbol)}

\* a comparison on the size of the spread, whatever its sign
CompareAbsolute(i, symbol, names, current_updates) ==
    LET spread_1 == current_updates[names[2]].best_bid - current_updates[names[1]].best_ask
        spread_2 == current_updates[names[1]].best_bid - current_updates[names[2]].best_ask
    IN  (IF spread_1 > ARBITRAGE_THRESHOLD \/ -spread_1 > ARBITRAGE_THRESHOLD
         THEN {Found(i, symbol, names[1], current_updates[names[1]].best_ask,
                     names[2], current_updates[names[2]].best_bid, spread_1)}
         ELSE {})
        \cup
        (IF spread_2 > ARBITRAGE_THRESHOLD \/ -spread_2 > ARBITRAGE_THRESHOLD
         THEN {Found(i, symbol, names[2], current_updates[names[2]].best_ask,
                     names[1], current_updates[names[1]].best_bid, spread_2)}
         ELSE {})

Compare(i, symbol, names, current_updates) ==
    LET ex_A_name == names[1]
        ex_B_name == names[2]
        update_A == current_updates[ex_A_name]
        update_B == current_updates[ex_B_name]
        ask_A == update_A.best_ask
        bid_B == update_B.best_bid
        spread_1 == bid_B - ask_A
        ask_B == update_B.best_ask
        bid_A == update_A.best_bid
        spread_2 == bid_A - ask_B
    IN  (IF spread_1 > ARBITRAGE_THRESHOLD
         THEN {Found(i, symbol, ex_A_name, ask_A, ex_B_name, bid_B, spread_1)}
         ELSE {})
        \cup
        (IF spread_2 > ARBITRAGE_THRESHOLD
         THEN {Found(i, symbol, ex_B_name, ask_B, ex_A_name, bid_A, spread_2)}
         ELSE {})
        \cup
        (IF spread_1 <= ARBITRAGE_THRESHOLD /\ spread_2 <= ARBITRAGE_THRESHOLD
         THEN {NoArbitrage(i, symbol)}
         ELSE {})

\* lines 84-99: what a cycle prints, nothing when it is skipped
CyclePrints(i, symbol, names, store) ==
    IF CycleSkipped(store, symbol, names)
    THEN {}
    ELSE Compare(i, symbol, names, CurrentUpdates(store, symbol, names))

\* lines 78-82: the guard on the number of exchanges
DetStart ==
    /\ det_pc = "start"
    /\ det_pc' = IF Len(exchanges_to_compare) < 2 THEN "returned" ELSE "loop"
    /\ UNCHANGED <<latest_market_data, exchanges_to_compare, iterations, det_i,
                   printed, sim_i>>
    /\ UNCHANGED <<connVars, feedVars, normVars, conceptVars, now>>

\* a detector whose skipped cycle is not counted: `i` advances only when the
\* quotes were compared
DetCycleRetry ==
    /\ det_pc = "loop"
    /\ det_i < iterations
    /\ latest_market_data' = Touch(latest_market_data, target_symbol)
    /\ printed' = CyclePrints(det_i + 1, target_symbol, exchanges_to_compare,
                              Touch(latest_market_data, target_symbol))
    /\ det_pc' = "sleep"
    /\ det_i' = IF CycleSkipped(Touch(latest_market_data, target_symbol),
                                target_symbol, exchanges_to_compare)
                THEN det_i ELSE det_i + 1
    /\ UNCHANGED <<exchanges_to_compare, iterations, sim_i>>
    /\ UNCHANGED <<connVars, feedVars, normVars, conceptVars, now>>

\* lines 84-131: one cycle of the for loop, up to its sleep
DetCycle ==
    /\ det_pc = "loop"
    /\ det_i < iterations
    /\ LET got == GetSymbol(latest_market_data, target_symbol)
       IN /\ latest_market_data' = got.store
          /\ IF got.raised
             THEN /\ printed' = {}
                  /\ det_pc' = "error"
             ELSE /\ printed' = CyclePrints(det_i + 1, target_symbol,
                                            exchanges_to_compare, got.store)
                  /\ det_pc' = "sleep"
    /\ det_i' = det_i + 1
    /\ UNCHANGED <<exchanges_to_compare, iterations, sim_i>>
    /\ UNCHANGED <<connVars, feedVars, normVars, conceptVars, now>>

\* lines 98 and 131: asyncio.sleep returns
DetWake ==
    /\ det_pc = "sleep"
    /\ det_pc' = "loop"
    /\ UNCHANGED <<latest_market_data, exchanges_to_compare, iterations, det_i,
                   printed, sim_i>>
    /\ UNCHANGED <<connVars, feedVars, normVars, conceptVars, now>>

\* line 132: the for loop is exhausted
DetFinish ==
    /\ det_pc = "loop"
    /\ det_i = iterations
    /\ det_pc' = "finished"
    /\ UNCHANGED <<latest_market_data, exchanges_to_compare, iterations, det_i,
                   printed, sim_i>>
    /\ UNCHANGED <<connVars, feedVars, normVars, conceptVars, now>>


(***************************************************************************)
(* binance_websocket_feed.py, okx_websocket_feed.py,                       *)
(* bybit_websocket_feed.py, bitget_websocket_feed.py                       *)
(***************************************************************************)
RECONNECT_DELAY_SECONDS == 5

FeedExchanges == {"binance", "okx", "bybit", "bitget"}

\* connect_binance_ws and connect_okx_ws take an optional output_queue
TakesQueue(ex) == ex \in {"binance", "okx"}

\* okx line 70, bitget line 56: a text "ping" from the venue is answered
AnswersPing(ex) == ex \in {"okx", "bitget"}

\* frames the venue sends: a data payload or the text "ping"
ManagerMessages == {"data", "ping"}

NoFailure == [at |-> "none", exc |-> "none"]

\* the output_queue argument: None, or a queue with its items
NoQueue == [given |-> FALSE, items |-> << >>]

EmptyQueue == [given |-> TRUE, items |-> << >>]

\* exceptions raised by websockets.connect
ConnectErrors == {"ConnectionRefusedError", "InvalidHandshake", "TimeoutError", "OSError"}

\* exceptions raised by send, ping and recv on a connection
ConnectionErrors == {"ConnectionClosedError", "ConnectionClosedOK"}

\* recv may also fail otherwise (a protocol or payload error)
RecvErrors == ConnectionErrors \cup {"RuntimeError"}

IsWebSocketException(exc) ==
    exc \in {"ConnectionClosedError", "ConnectionClosedOK", "InvalidHandshake"}

\* subclasses of Exception; KeyboardInterrupt and CancelledError are not
IsException(exc) == exc \in ConnectErrors \cup RecvErrors

\* the except clauses of the inner try (binance lines 67-82)
InnerCatches(exc) ==
    \/ exc = "TimeoutError"
    \/ exc = "ConnectionClosedError"
    \/ exc = "ConnectionClosedOK"
    \/ IsException(exc)

\* the except clauses of the outer try (binance lines 93-98)
OuterCatchesNoGeneric(exc) ==
    \/ IsWebSocketException(exc)
    \/ exc = "ConnectionRefusedError"

OuterCatches(exc) ==
    \/ IsWebSocketException(exc)
    \/ exc = "ConnectionRefusedError"
    \/ IsException(exc)

Bump(n) == IF n < MaxAttempts THEN n + 1 ELSE n

\* where an exception raised at `at` leaves the manager: inside the inner
\* try it breaks the inner loop, elsewhere it reaches the outer try; the
\* socket, when open, is closed on the way out of `async with`
\* a failed connect followed by the next attempt at once, without the sleep
AfterRaiseAtOnce(at, exc) ==
    IF at \in {"recv", "pong"}
    THEN IF InnerCatches(exc) THEN "closing" ELSE "crashed"
    ELSE IF OuterCatches(exc)
         THEN IF at = "connect" THEN "connect" ELSE "closing"
         ELSE "crashed"

AfterRaise(at, exc) ==
    IF at \in {"recv", "pong"}
    THEN IF InnerCatches(exc) THEN "closing" ELSE "crashed"
    ELSE IF OuterCatches(exc)
         THEN IF at = "connect" THEN "sleep" ELSE "closing"
         ELSE "crashed"

Fail(at, exc) ==
    /\ pc' = AfterRaise(at, exc)
    /\ lastFailure' = [at |-> at, exc |-> exc]
    /\ waited' = 0

\* PING_INTERVAL_SECONDS of binance (line 21) and okx (line 23),
\* CLIENT_PING_INTERVAL_SECONDS of bybit (line 18) and bitget (line 22)
PING_INTERVAL_SECONDS(ex) ==
    CASE ex = "binance" -> 150
      [] ex = "okx" -> 25
      [] ex = "bybit" -> 15
      [] OTHER -> 25

\* every manager waiting for a frame twice its interval, as bybit line 46 does
RecvTimeoutSecondsTwice(ex) == PING_INTERVAL_SECONDS(ex) * 2

\* the timeout of asyncio.wait_for(websocket.recv(), ...): binance line 53,
\* okx line 57, bybit line 46, bitget line 50
RecvTimeoutSeconds(ex) ==
    CASE ex = "binance" -> PING_INTERVAL_SECONDS(ex) \div 2
      [] ex = "bybit" -> PING_INTERVAL_SECONDS(ex) * 2
      [] OTHER -> PING_INTERVAL_SECONDS(ex)

\* the keepalive the manager sends: websocket.ping() (binance line 71),
\* the text "ping" (okx line 78, bitget line 64), json.dumps(PING_MESSAGE)
\* (bybit line 69)
Keepalive(ex) ==
    CASE ex = "binance" -> "ping frame"
      [] ex = "bybit" -> "{\"op\": \"ping\"}"
      [] OTHER -> "ping"

\* seconds a frame may take to arrive: at once, or just within the timeout
MessageWaits(ex) == {0, RecvTimeoutSeconds(ex) - 1}

\* time.time() - last_ping_time after w more seconds; values at or above the
\* interval all compare the same, so the interval stands for them
Later(ex, e, w) ==
    IF e + w >= PING_INTERVAL_SECONDS(ex) THEN PING_INTERVAL_SECONDS(ex) ELSE e + w

\* binance lines 69 and 86: time.time() - last_ping_time >= PING_INTERVAL_SECONDS
Due(ex, e) == e >= PING_INTERVAL_SECONDS(ex)

\* the latest pass of the inner loop: what the wait gave, whether the message
\* was printed, and the frames sent afterwards, in order
Pass(m, shown, frames) == [message |-> m, printed |-> shown, sent |-> frames]

NoPass == Pass("none", FALSE, << >>)

\* line 41: websockets.connect succeeds
ConnectOK ==
    /\ pc = "connect"
    /\ pc' = "subscribe"
    /\ handled' = NoPass
    /\ UNCHANGED <<exchange, attempts, waited, lastFailure, output_queue, elapsed>>
    /\ UNCHANGED <<detVars, feedVars, normVars, conceptVars, now>>

\* line 41: websockets.connect raises
ConnectFail ==
    /\ pc = "connect"
    /\ \E exc \in ConnectErrors : Fail("connect", exc)
    /\ UNCHANGED <<exchange, attempts, output_queue, handled, elapsed>>
    /\ UNCHANGED <<detVars, feedVars, normVars, conceptVars, now>>

\* the inner loop entered without the subscription being sent
SubscribeOKSilent ==
    /\ pc = "subscribe"
    /\ pc' = "recv"
    /\ handled' = NoPass
    /\ elapsed' = 0
    /\ UNCHANGED <<exchange, attempts, waited, lastFailure, output_queue>>
    /\ UNCHANGED <<detVars, feedVars, normVars, conceptVars, now>>

\* lines 45-48: the subscription is sent, last_ping_time = time.time()
SubscribeOK ==
    /\ pc = "subscribe"
    /\ pc' = "recv"
    /\ handled' = Pass("none", FALSE, <<"subscribe">>)
    /\ elapsed' = 0
    /\ UNCHANGED <<exchange, attempts, waited, lastFailure, output_queue>>
    /\ UNCHANGED <<detVars, feedVars, normVars, conceptVars, now>>

\* line 45: sending the subscription raises
SubscribeFail ==
    /\ pc = "subscribe"
    /\ \E exc \in ConnectionErrors : Fail("subscribe", exc)
    /\ UNCHANGED <<exchange, attempts, output_queue, handled, elapsed>>
    /\ UNCHANGED <<detVars, feedVars, normVars, conceptVars, now>>

\* the message put on the queue whether or not one was given
ForwardAlways(ex, q, m) == [q EXCEPT !.items = Append(@, <<ex, m>>)]

\* binance lines 55-63: the message goes to the queue when one was given
Forward(ex, q, m) ==
    IF TakesQueue(ex) /\ q.given
    THEN [q EXCEPT !.items = Append(@, <<ex, m>>)]
    ELSE q

\* binance line 63, bybit line 47, bitget line 51: the message is printed
Printed(ex, q) == ~(TakesQueue(ex) /\ q.given)

\* the venue's text "ping" left unanswered
RepliesNone(ex, m) == << >>

\* okx lines 70-73, bitget lines 56-59: the text "ping" is answered with "pong"
Replies(ex, m) == IF AnswersPing(ex) /\ m = "ping" THEN <<"pong">> ELSE << >>

\* binance lines 86-90: the proactive keepalive, e being the seconds since
\* last_ping_time and frames what this pass has sent so far
Proactive(ex, e, frames) ==
    IF Due(ex, e) THEN Append(frames, Keepalive(ex)) ELSE frames

\* last_ping_time after the pass
Reset(ex, e) == IF Due(ex, e) THEN 0 ELSE e

\* the pass ends well: handled and elapsed after message m, replies sent
Handled(ex, m, shown, replies, e) ==
    /\ handled' = Pass(m, shown, Proactive(ex, IF replies = << >> THEN e ELSE 0, replies))
    /\ elapsed' = Reset(ex, IF replies = << >> THEN e ELSE 0)
    /\ UNCHANGED <<pc, lastFailure, waited>>

\* a send of the pass raises: the reply inside the inner try (at "pong"), the
\* keepalive of the except clause (at "keepalive"), the proactive keepalive
\* after the try statement (at "proactive")
SendRaises(ex, m, shown, replies, e) ==
    \/ /\ replies # << >>
       /\ \E exc \in ConnectionErrors :
              Fail(IF m = "timeout" THEN "keepalive" ELSE "pong", exc)
       /\ handled' = Pass(m, shown, << >>)
       /\ elapsed' = e
    \/ /\ Due(ex, IF replies = << >> THEN e ELSE 0)
       /\ \E exc \in ConnectionErrors : Fail("proactive", exc)
       /\ handled' = Pass(m, shown, replies)
       /\ elapsed' = IF replies = << >> THEN e ELSE 0

\* lines 53-90: a frame arrives after w seconds; it is forwarded or printed,
\* a venue "ping" is answered, and the proactive keepalive is sent when due
RecvMessage(m, w) ==
    /\ pc = "recv"
    /\ Len(output_queue.items) < MaxQueue
    /\ output_queue' = Forward(exchange, output_queue, m)
    /\ \/ Handled(exchange, m, Printed(exchange, output_queue),
                  Replies(exchange, m), Later(exchange, elapsed, w))
       \/ SendRaises(exchange, m, Printed(exchange, output_queue),
                     Replies(exchange, m), Later(exchange, elapsed, w))
    /\ UNCHANGED <<exchange, attempts>>
    /\ UNCHANGED <<detVars, feedVars, normVars, conceptVars, now>>

\* the keepalive sent on every timeout, whatever last_ping_time says
TimeoutSendsAlways(ex, e) == <<Keepalive(ex)>>

\* the except asyncio.TimeoutError clause: binance lines 67-73 send the ping
\* frame when the interval has passed, okx lines 75-80 and bitget lines 61-66
\* send the text "ping", bybit lines 50-54 send nothing
TimeoutSends(ex, e) ==
    CASE ex = "binance" -> IF Due(ex, e) THEN <<Keepalive(ex)>> ELSE << >>
      [] ex = "bybit" -> << >>
      [] OTHER -> <<Keepalive(ex)>>

\* lines 67-73 and 84-90: the wait for a frame times out
RecvTimeout ==
    /\ pc = "recv"
    /\ \/ Handled(exchange, "timeout", FALSE,
                  TimeoutSends(exchange, Later(exchange, elapsed, RecvTimeoutSeconds(exchange))),
                  Later(exchange, elapsed, RecvTimeoutSeconds(exchange)))
       \/ SendRaises(exchange, "timeout", FALSE,
                     TimeoutSends(exchange, Later(exchange, elapsed, RecvTimeoutSeconds(exchange))),
                     Later(exchange, elapsed, RecvTimeoutSeconds(exchange)))
    /\ UNCHANGED <<exchange, attempts, output_queue>>
    /\ UNCHANGED <<detVars, feedVars, normVars, conceptVars, now>>

\* lines 74-82: recv raises, the inner loop is left
RecvFail ==
    /\ pc = "recv"
    /\ \E exc \in RecvErrors : Fail("recv", exc)
    /\ UNCHANGED <<exchange, attempts, output_queue, handled, elapsed>>
    /\ UNCHANGED <<detVars, feedVars, normVars, conceptVars, now>>

\* line 41: leaving `async with` closes the socket; line 100 follows
CloseSocket ==
    /\ pc = "closing"
    /\ pc' = "sleep"
    /\ UNCHANGED <<exchange, attempts, waited, lastFailure, output_queue, handled, elapsed>>
    /\ UNCHANGED <<detVars, feedVars, normVars, conceptVars, now>>

\* line 101: one second of asyncio.sleep(RECONNECT_DELAY_SECONDS) passes
SleepTick ==
    /\ pc = "sleep"
    /\ waited < RECONNECT_DELAY_SECONDS
    /\ waited' = waited + 1
    /\ UNCHANGED <<exchange, pc, attempts, lastFailure, output_queue, handled, elapsed>>
    /\ UNCHANGED <<detVars, feedVars, normVars, conceptVars, now>>

\* the outer loop missing: the function returns after the delay
SleepDoneReturn ==
    /\ pc = "sleep"
    /\ waited = RECONNECT_DELAY_SECONDS
    /\ pc' = "returned"
    /\ UNCHANGED <<exchange, attempts, waited, lastFailure, output_queue, handled, elapsed>>
    /\ UNCHANGED <<detVars, feedVars, normVars, conceptVars, now>>

\* lines 101 and 38-41: the sleep returns and the outer loop connects again
SleepDone ==
    /\ pc = "sleep"
    /\ waited = RECONNECT_DELAY_SECONDS
    /\ pc' = "connect"
    /\ attempts' = Bump(attempts)
    /\ lastFailure' = NoFailure
    /\ UNCHANGED <<exchange, waited, output_queue, handled, elapsed>>
    /\ UNCHANGED <<detVars, feedVars, normVars, conceptVars, now>>

\* KeyboardInterrupt or cancellation: not an Exception, no clause catches it
Shutdown ==
    /\ pc \in {"connect", "subscribe", "recv", "closing", "sleep"}
    /\ pc' = "stopped"
    /\ UNCHANGED <<exchange, attempts, waited, lastFailure, output_queue, handled, elapsed>>
    /\ UNCHANGED <<detVars, feedVars, normVars, conceptVars, now>>

\* the reader of the queue takes an item
QueueGet ==
    /\ output_queue.items # << >>
    /\ output_queue' = [output_queue EXCEPT !.items = Tail(@)]
    /\ UNCHANGED <<exchange, pc, attempts, waited, lastFailure, handled, elapsed>>
    /\ UNCHANGED <<detVars, feedVars, normVars, conceptVars, now>>

(***************************************************************************)
(* Strings, as the code inspects them: str.upper, `in`, str.replace,       *)
(* slicing and float().                                                    *)
(***************************************************************************)
LowerLetters == <<"a", "b", "c", "d", "e", "f", "g", "h", "i", "j", "k", "l", "m", "n", "o", "p", "q", "r", "s", "t", "u", "v", "w", "x", "y", "z">>

UpperLetters == <<"A", "B", "C", "D", "E", "F", "G", "H", "I", "J", "K", "L", "M", "N", "O", "P", "Q", "R", "S", "T", "U", "V", "W", "X", "Y", "Z">>

Digits == <<"0", "1", "2", "3", "4", "5", "6", "7", "8", "9">>

\* str.upper, one character
UpperChar(c) ==
    IF \E i \in 1..26 : LowerLetters[i] = c
    THEN UpperLetters[CHOOSE i \in 1..26 : LowerLetters[i] = c]
    ELSE c

\* str.upper
StrUpper(str) == [i \in 1..Len(str) |-> UpperChar(str[i])]

StartsWith(str, pat) == Len(str) >= Len(pat) /\ SubSeq(str, 1, Len(pat)) = pat

\* pat in str
Contains(str, pat) ==
    \E i \in 0..(Len(str) - Len(pat)) : SubSeq(str, i + 1, i + Len(pat)) = pat

\* the part of str.replace(pat, rep) that starts at position i
RECURSIVE ReplaceFrom(_, _, _, _)
ReplaceFrom(str, pat, rep, i) ==
    IF i > Len(str) THEN << >>
    ELSE IF i + Len(pat) - 1 <= Len(str) /\ SubSeq(str, i, i + Len(pat) - 1) = pat
         THEN rep \o ReplaceFrom(str, pat, rep, i + Len(pat))
         ELSE <<str[i]>> \o ReplaceFrom(str, pat, rep, i + 1)

\* str.replace(pat, rep): every non-overlapping occurrence, left to right
StrReplace(str, pat, rep) == ReplaceFrom(str, pat, rep, 1)

\* the outcome of evaluating an expression: a value, None or an exception
RVal(v) == [st |-> "ok", val |-> v, exc |-> "none"]

RNone == [st |-> "none", val |-> 0, exc |-> "none"]

RRaise(exc) == [st |-> "raise", val |-> 0, exc |-> exc]

IsDigit(c) == \E i \in 1..10 : Digits[i] = c

DigitVal(c) == (CHOOSE i \in 1..10 : Digits[i] = c) - 1

\* the number written by the first k digits of str
RECURSIVE NatValUpTo(_, _)
NatValUpTo(str, k) ==
    IF k = 0 THEN 0 ELSE 10 * NatValUpTo(str, k - 1) + DigitVal(str[k])

NatVal(str) == NatValUpTo(str, Len(str))

\* the value of the digits after the point, in hundredths
Hundredths(fp) ==
    IF Len(fp) = 0 THEN 0
    ELSE IF Len(fp) = 1 THEN 10 * DigitVal(fp[1])
    ELSE 10 * DigitVal(fp[1]) + DigitVal(fp[2])

AllDigits(str) == \A i \in 1..Len(str) : IsDigit(str[i])

\* float() of the digits ip before and fp after the point
FloatOfParts(ip, fp) ==
    IF AllDigits(ip) /\ AllDigits(fp) /\ Len(ip) + Len(fp) > 0
    THEN RVal(100 * NatVal(ip) + Hundredths(fp))
    ELSE RRaise("ValueError")

\* float() of an unsigned body whose point, if any, is at position dot
FloatAtPoint(body, dot) ==
    FloatOfParts(SubSeq(body, 1, dot - 1),
                 IF dot >= Len(body) THEN << >>
                 ELSE SubSeq(body, dot + 1, Len(body)))

FloatWithPoints(body, dots) ==
    IF Cardinality(dots) > 1 THEN RRaise("ValueError")
    ELSE FloatAtPoint(body, IF dots = {} THEN Len(body) + 1
                            ELSE CHOOSE i \in dots : TRUE)

FloatUnsigned(body) ==
    FloatWithPoints(body, { i \in 1..Len(body) : body[i] = "." })

Negated(r) == IF r.st = "ok" THEN RVal(0 - r.val) ELSE r

\* float(str) for decimal notation, in hundredths; anything else is a ValueError
ParseFloat(str) ==
    IF Len(str) > 0 /\ str[1] = "-"
    THEN Negated(FloatUnsigned(Tail(str)))
    ELSE FloatUnsigned(str)

(***************************************************************************)
(* JSON documents and the outcome of a Python expression.                  *)
(***************************************************************************)
Absent == [t |-> "absent"]

JNone == [t |-> "null"]

JStr(chars) == [t |-> "str", v |-> chars]

JNum(n) == [t |-> "num", v |-> n]

JArr(items) == [t |-> "arr", v |-> items]

\* an object holding the fields of f that are not Absent
JObj(f) == [t |-> "obj", v |-> [k \in { k \in DOMAIN f : f[k] # Absent } |-> f[k]]]

\* a raw message: a JSON document, or text that is no JSON ("ping")
JsonText(doc) == [t |-> "json", v |-> doc]

PlainText(text) == [t |-> "text", v |-> text]

\* dict.get(key)
Get(d, key) == IF key \in DOMAIN d.v THEN d.v[key] ELSE JNone

\* key in dict
Has(d, key) == key \in DOMAIN d.v

\* the truth value Python gives a JSON value
Truthy(x) ==
    CASE x.t = "null" -> FALSE
      [] x.t = "str" -> Len(x.v) > 0
      [] x.t = "num" -> x.v # 0
      [] x.t = "arr" -> Len(x.v) > 0
      [] x.t = "obj" -> DOMAIN x.v # {}

Raised(exc) == [t |-> "raised", exc |-> exc]

\* a call that has not been made
NotCalled == [t |-> "notcalled"]

\* no item taken from the queue yet
NoItem == <<"none", PlainText("")>>

\* nothing put on data_queue and nothing taken from it yet
NoArrival == [put |-> << >>, got |-> << >>]

\* a JSON value that is the string chars
JStrEq(x, chars) == x.t = "str" /\ x.v = chars

\* json.loads
JsonLoads(rawmsg) ==
    IF rawmsg.t = "json" THEN RVal(rawmsg.v) ELSE RRaise("JSONDecodeError")

\* float(x), in hundredths
PyFloat(x) ==
    CASE x.t = "str" -> ParseFloat(x.v)
      [] x.t = "num" -> RVal(100 * x.v)
      [] OTHER -> RRaise("TypeError")

(***************************************************************************)
(* live_feed_manager.py: parse_binance_message                             *)
(***************************************************************************)
S_USDT == <<"U", "S", "D", "T">>

S_BUSD == <<"B", "U", "S", "D">>

S_SLASH_USDT == <<"/", "U", "S", "D", "T">>

S_SLASH_BUSD == <<"/", "B", "U", "S", "D">>

S_aggTrade == <<"a", "g", "g", "T", "r", "a", "d", "e">>

S_depthUpdate == <<"d", "e", "p", "t", "h", "U", "p", "d", "a", "t", "e">>

\* lines 35-47 without the rewriting: the venue's symbol is kept
BinanceStandardSymbolKept(symbol) == RVal(symbol)

\* the rewriting with the two quote currencies looked for in the other order
BinanceHeuristicBusdFirst(symbol, upper) ==
    IF Contains(upper, S_BUSD) THEN StrReplace(upper, S_BUSD, S_SLASH_BUSD)
    ELSE IF Contains(upper, S_USDT) THEN StrReplace(upper, S_USDT, S_SLASH_USDT)
    ELSE SubSeq(symbol, 1, 3) \o <<"/">> \o SubSeq(symbol, 4, Len(symbol))

\* lines 39-45: the rewriting of a symbol without '/', upper being symbol.upper()
BinanceHeuristic(symbol, upper) ==
    IF Contains(upper, S_USDT) THEN StrReplace(upper, S_USDT, S_SLASH_USDT)
    ELSE IF Contains(upper, S_BUSD) THEN StrReplace(upper, S_BUSD, S_SLASH_BUSD)
    ELSE SubSeq(symbol, 1, 3) \o <<"/">> \o SubSeq(symbol, 4, Len(symbol))

\* lines 35-47: standard_symbol from data.get('s')
BinanceStandardSymbol(symbol) ==
    IF ~Truthy(symbol) THEN RVal(symbol)
    ELSE IF symbol.t # "str" THEN RRaise("TypeError")
    ELSE IF Len(symbol.v) > 3 /\ ~Contains(symbol.v, <<"/">>)
         THEN RVal(JStr(BinanceHeuristic(symbol.v, StrUpper(symbol.v))))
         ELSE RVal(symbol)

\* the timestamp left to OrderBookUpdate's default, the time of receipt
EventSecondsReceipt(ms) == None

\* lines 64, 91 and 163: milliseconds / 1000.0
EventSeconds(ms) == Seconds(ms)

\* the trade price taken as the bid only, the ask one hundredth above it
TradeUpdateOneSided(standard_symbol, trade_price, trade_timestamp_ms, clock) ==
    IF trade_price.st = "raise" THEN Raised(trade_price.exc)
    ELSE IF trade_price.val # 0 /\ Truthy(standard_symbol)
                                /\ Truthy(trade_timestamp_ms)
    THEN IF trade_timestamp_ms.t # "num" THEN Raised("TypeError")
         ELSE OrderBookUpdate("binance", standard_symbol.v,
                              trade_price.val, trade_price.val + 1,
                              EventSeconds(trade_timestamp_ms.v), clock)
    ELSE None

\* lines 56-67: the update of a trade, or None
TradeUpdate(standard_symbol, trade_price, trade_timestamp_ms, clock) ==
    IF trade_price.st = "raise" THEN Raised(trade_price.exc)
    ELSE IF trade_price.val # 0 /\ Truthy(standard_symbol)
                                /\ Truthy(trade_timestamp_ms)
    THEN IF trade_timestamp_ms.t # "num" THEN Raised("TypeError")
         ELSE OrderBookUpdate("binance", standard_symbol.v,
                              trade_price.val, trade_price.val,
                              EventSeconds(trade_timestamp_ms.v), clock)
    ELSE None

\* lines 50-67: the aggTrade branch
BinanceAggTrade(data, standard_symbol, clock) ==
    TradeUpdate(standard_symbol, PyFloat(Get(data, "p")), Get(data, "T"), clock)

\* the price of the last level instead of the first
BestLevelPriceLast(levels) ==
    IF Truthy(levels) /\ levels.t # "arr" THEN RRaise("TypeError")
    ELSE IF Truthy(levels) /\ Len(levels.v) > 0
    THEN IF levels.v[Len(levels.v)].t # "arr" THEN RRaise("TypeError")
         ELSE IF Len(levels.v[Len(levels.v)].v) > 0
         THEN PyFloat(levels.v[Len(levels.v)].v[1])
         ELSE RNone
    ELSE RNone

\* lines 80-84: float(data[side][0][0]) when the side has a first level
BestLevelPrice(levels) ==
    IF Truthy(levels) /\ levels.t # "arr" THEN RRaise("TypeError")
    ELSE IF Truthy(levels) /\ Len(levels.v) > 0
    THEN IF levels.v[1].t # "arr" THEN RRaise("TypeError")
         ELSE IF Len(levels.v[1].v) > 0 THEN PyFloat(levels.v[1].v[1])
         ELSE RNone
    ELSE RNone

\* a depth message whose prices are put in order before they are stored
DepthUpdateUncrossed(standard_symbol, event_time_ms, best_bid_price, best_ask_price, clock) ==
    IF best_bid_price.st = "raise" THEN Raised(best_bid_price.exc)
    ELSE IF best_ask_price.st = "raise" THEN Raised(best_ask_price.exc)
    ELSE IF best_bid_price.st = "ok" /\ best_ask_price.st = "ok"
            /\ Truthy(standard_symbol) /\ Truthy(event_time_ms)
    THEN IF event_time_ms.t # "num" THEN Raised("TypeError")
         ELSE OrderBookUpdate("binance", standard_symbol.v,
                              IF best_bid_price.val <= best_ask_price.val
                              THEN best_bid_price.val ELSE best_ask_price.val,
                              IF best_bid_price.val <= best_ask_price.val
                              THEN best_ask_price.val ELSE best_bid_price.val,
                              EventSeconds(event_time_ms.v), clock)
    ELSE None

\* lines 86-96: the update of a depth message, or None
DepthUpdate(standard_symbol, event_time_ms, best_bid_price, best_ask_price, clock) ==
    IF best_bid_price.st = "raise" THEN Raised(best_bid_price.exc)
    ELSE IF best_ask_price.st = "raise" THEN Raised(best_ask_price.exc)
    ELSE IF best_bid_price.st = "ok" /\ best_ask_price.st = "ok"
            /\ Truthy(standard_symbol) /\ Truthy(event_time_ms)
    THEN IF event_time_ms.t # "num" THEN Raised("TypeError")
         ELSE OrderBookUpdate("binance", standard_symbol.v,
                              best_bid_price.val, best_ask_price.val,
                              EventSeconds(event_time_ms.v), clock)
    ELSE None

\* lines 69-96: the depthUpdate branch
BinanceDepthUpdate(data, standard_symbol, clock) ==
    DepthUpdate(standard_symbol, Get(data, "E"),
                BestLevelPrice(Get(data, "b")), BestLevelPrice(Get(data, "a")),
                clock)

\* lines 50-101: the branch of the event type
BinanceEvent(data, standard_symbol, clock) ==
    IF standard_symbol.st = "raise" THEN Raised(standard_symbol.exc)
    ELSE IF JStrEq(Get(data, "e"), S_aggTrade)
    THEN BinanceAggTrade(data, standard_symbol.val, clock)
    ELSE IF JStrEq(Get(data, "e"), S_depthUpdate)
    THEN BinanceDepthUpdate(data, standard_symbol.val, clock)
    ELSE None

\* lines 32-101: what follows json.loads
BinanceLoaded(loaded, clock) ==
    IF loaded.st = "raise" THEN Raised(loaded.exc)
    ELSE IF loaded.val.t # "obj" THEN Raised("AttributeError")
    ELSE BinanceEvent(loaded.val, BinanceStandardSymbol(Get(loaded.val, "s")),
                      clock)

\* lines 31-101: the body of the try
BinanceBody(raw_json_string, clock) ==
    BinanceLoaded(JsonLoads(raw_json_string), clock)

\* only `except json.JSONDecodeError`
ParserCatchesDecodeOnly(exc) == exc = "JSONDecodeError"

\* lines 103-108 and 171-176: except json.JSONDecodeError, except Exception
ParserCatches(exc) ==
    \/ exc = "JSONDecodeError"
    \/ exc \in {"JSONDecodeError", "AttributeError", "TypeError", "ValueError",
                "IndexError", "KeyError"}

\* the try statement of a parser around the outcome r of its body
Caught(r) == IF r.t = "raised" /\ ParserCatches(r.exc) THEN None ELSE r

\* lines 18-108
parse_binance_message(raw_json_string, clock) ==
    Caught(BinanceBody(raw_json_string, clock))

(***************************************************************************)
(* live_feed_manager.py: parse_okx_message                                 *)
(***************************************************************************)
S_event == <<"e", "v", "e", "n", "t">>

S_arg == <<"a", "r", "g">>

S_channel == <<"c", "h", "a", "n", "n", "e", "l">>

S_tickers == <<"t", "i", "c", "k", "e", "r", "s">>

S_USDT_SWAP == <<"-", "U", "S", "D", "T", "-", "S", "W", "A", "P">>

S_USD_SWAP == <<"-", "U", "S", "D", "-", "S", "W", "A", "P">>

S_USD_INVERSE == <<"/", "U", "S", "D", "_", "I", "N", "V", "E", "R", "S", "E">>

\* lines 152-156: standard_symbol from instId
\* the instrument id of OKX kept as the symbol
OkxStandardSymbolKept(inst_id) == inst_id

OkxStandardSymbol(inst_id) ==
    IF Contains(inst_id, S_USDT_SWAP)
    THEN StrReplace(inst_id, S_USDT_SWAP, S_SLASH_USDT)
    ELSE IF Contains(inst_id, S_USD_SWAP)
    THEN StrReplace(inst_id, S_USD_SWAP, S_USD_INVERSE)
    ELSE inst_id

\* lines 159-163: the constructor call on the converted arguments
OkxQuote(standard_symbol, best_bid, best_ask, ts, clock) ==
    IF best_bid.st = "raise" THEN Raised(best_bid.exc)
    ELSE IF best_ask.st = "raise" THEN Raised(best_ask.exc)
    ELSE IF ts.st = "raise" THEN Raised(ts.exc)
    ELSE OrderBookUpdate("okx", standard_symbol, best_bid.val, best_ask.val,
                         EventSeconds(ts.val \div 100), clock)

\* the update with the two prices exchanged
OkxUpdateSwapped(standard_symbol, bid_px_str, ask_px_str, ts_str, clock) ==
    OkxQuote(standard_symbol, PyFloat(ask_px_str), PyFloat(bid_px_str),
             PyFloat(ts_str), clock)

\* lines 159-163: the update built from the strings of the ticker
OkxUpdate(standard_symbol, bid_px_str, ask_px_str, ts_str, clock) ==
    OkxQuote(standard_symbol, PyFloat(bid_px_str), PyFloat(ask_px_str),
             PyFloat(ts_str), clock)

\* lines 145-163: the four fields of the ticker
OkxFields(inst_id, ask_px_str, bid_px_str, ts_str, clock) ==
    IF ~(/\ Truthy(inst_id) /\ Truthy(ask_px_str)
         /\ Truthy(bid_px_str) /\ Truthy(ts_str))
    THEN None
    ELSE IF inst_id.t # "str" THEN Raised("TypeError")
    ELSE OkxUpdate(OkxStandardSymbol(inst_id.v), bid_px_str, ask_px_str,
                   ts_str, clock)

\* lines 138-163: data_item = data['data'][0]
OkxDataItem(data_item, clock) ==
    IF data_item.t # "obj" THEN Raised("AttributeError")
    ELSE OkxFields(Get(data_item, "instId"), Get(data_item, "askPx"),
                   Get(data_item, "bidPx"), Get(data_item, "ts"), clock)

\* lines 137-166: a message of the tickers channel
OkxTickers(data, clock) ==
    IF Has(data, "data") /\ Truthy(data.v["data"])
    THEN IF data.v["data"].t = "obj" THEN Raised("KeyError")
         ELSE IF data.v["data"].t = "num" THEN Raised("TypeError")
         ELSE IF data.v["data"].t = "str" THEN Raised("AttributeError")
         ELSE OkxDataItem(data.v["data"].v[1], clock)
    ELSE None

\* line 136: 'channel' in data['arg'] and data['arg']['channel'] == 'tickers'
OkxIsTickers(arg) ==
    CASE arg.t = "obj" ->
             IF Has(arg, "channel") /\ JStrEq(arg.v["channel"], S_tickers)
             THEN "yes" ELSE "no"
      [] arg.t = "str" -> IF Contains(arg.v, S_channel) THEN "TypeError" ELSE "no"
      [] arg.t = "arr" ->
             IF \E i \in 1..Len(arg.v) : JStrEq(arg.v[i], S_channel)
             THEN "TypeError" ELSE "no"
      [] OTHER -> "TypeError"

\* lines 136-169: the branch on the channel
OkxChannel(data, tickers, clock) ==
    IF tickers = "yes" THEN OkxTickers(data, clock)
    ELSE IF tickers = "no" THEN None
    ELSE Raised(tickers)

\* the tickers branch taken whatever the envelope says
OkxDocumentAnyChannel(data, clock) ==
    IF data.t # "obj" THEN None
    ELSE IF Has(data, "event") THEN None
    ELSE OkxTickers(data, clock)

\* lines 128-169: the loaded document
OkxDocument(data, clock) ==
    IF data.t \in {"num", "null"} THEN Raised("TypeError")
    ELSE IF data.t = "str"
    THEN IF Contains(data.v, S_event) \/ Contains(data.v, S_arg)
         THEN Raised("TypeError") ELSE None
    ELSE IF data.t = "arr" THEN None
    ELSE IF Has(data, "event") THEN None
    ELSE IF Has(data, "arg")
    THEN OkxChannel(data, OkxIsTickers(data.v["arg"]), clock)
    ELSE None

\* lines 125-169: what follows json.loads
OkxLoaded(loaded, clock) ==
    IF loaded.st = "raise" THEN Raised(loaded.exc)
    ELSE OkxDocument(loaded.val, clock)

\* lines 125-169: the body of the try
OkxBody(raw_json_string, clock) == OkxLoaded(JsonLoads(raw_json_string), clock)

\* lines 111-176
parse_okx_message(raw_json_string, clock) ==
    Caught(OkxBody(raw_json_string, clock))

(***************************************************************************)
(* feed_manager_concept.py: parse_binance_data, parse_okx_ticker           *)
(***************************************************************************)
\* float(levels[0][0])
FirstLevelPrice(levels) ==
    IF levels.t # "arr" THEN RRaise("TypeError")
    ELSE IF levels.v[1].t # "arr" THEN RRaise("TypeError")
    ELSE IF Len(levels.v[1].v) = 0 THEN RRaise("IndexError")
    ELSE PyFloat(levels.v[1].v[1])

\* lines 119-123 and 140-144: the constructor call; the timestamp is time.time()
ConceptUpdate(exchange_name, symbol, best_bid, best_ask, clock) ==
    IF best_bid.st = "raise" THEN Raised(best_bid.exc)
    ELSE IF best_ask.st = "raise" THEN Raised(best_ask.exc)
    ELSE OrderBookUpdate(exchange_name, symbol, best_bid.val, best_ask.val,
                         Seconds(clock), clock)

\* lines 118-128: the loaded document
BinanceData(data, symbol, clock) ==
    IF data.t \in {"num", "null"} THEN Raised("TypeError")
    ELSE IF data.t # "obj" THEN None
    ELSE IF /\ Has(data, "bids") /\ Has(data, "asks")
            /\ Truthy(data.v["bids"]) /\ Truthy(data.v["asks"])
    THEN ConceptUpdate("binance", symbol, FirstLevelPrice(data.v["bids"]),
                       FirstLevelPrice(data.v["asks"]), clock)
    ELSE None

\* what follows json.loads in parse_binance_data
BinanceDataLoaded(loaded, symbol, clock) ==
    IF loaded.st = "raise" THEN Raised(loaded.exc)
    ELSE BinanceData(loaded.val, symbol, clock)

\* lines 108-128; no try statement
parse_binance_data(raw_json_data, symbol, clock) ==
    BinanceDataLoaded(JsonLoads(raw_json_data), symbol, clock)

\* lines 138-145: ticker_info = data['data'][0]
OkxTickerInfo(ticker_info, symbol_mapping, clock) ==
    IF ticker_info.t # "obj" THEN Raised("TypeError")
    ELSE IF /\ Has(ticker_info, "bestBid") /\ Has(ticker_info, "bestAsk")
            /\ Truthy(ticker_info.v["bestBid"])
            /\ Truthy(ticker_info.v["bestAsk"])
    THEN ConceptUpdate("okx", symbol_mapping,
                       PyFloat(ticker_info.v["bestBid"]),
                       PyFloat(ticker_info.v["bestAsk"]), clock)
    ELSE None

\* lines 137-145: the loaded document
OkxTicker(data, symbol_mapping, clock) ==
    IF data.t \in {"num", "null"} THEN Raised("TypeError")
    ELSE IF data.t # "obj" THEN None
    ELSE IF Has(data, "data") /\ Truthy(data.v["data"])
    THEN IF data.v["data"].t # "arr" THEN Raised("KeyError")
         ELSE OkxTickerInfo(data.v["data"].v[1], symbol_mapping, clock)
    ELSE None

\* what follows json.loads in parse_okx_ticker
OkxTickerLoaded(loaded, symbol_mapping, clock) ==
    IF loaded.st = "raise" THEN Raised(loaded.exc)
    ELSE OkxTicker(loaded.val, symbol_mapping, clock)

\* lines 131-145; no try statement
parse_okx_ticker(raw_json_data, symbol_mapping, clock) ==
    OkxTickerLoaded(JsonLoads(raw_json_data), symbol_mapping, clock)

(***************************************************************************)
(* The raw messages the parsers are given.  Prices have at most two        *)
(* decimals; times are milliseconds.                                       *)
(***************************************************************************)
S_BTCUSDT == <<"B", "T", "C", "U", "S", "D", "T">>

P_60000_10 == <<"6", "0", "0", "0", "0", ".", "1", "0">>

P_60001_20 == <<"6", "0", "0", "0", "1", ".", "2", "0">>

P_abc == <<"a", "b", "c">>

Q_1_5 == <<"1", ".", "5">>

Q_0_5 == <<"0", ".", "5">>

T_1500 == <<"1", "5", "0", "0">>

T_2250 == <<"2", "2", "5", "0">>

\* one [price, quantity] entry of a depth message
Level(price, qty) == JArr(<<JStr(price), JStr(qty)>>)

SymbolValues ==
    {Absent, JStr(<< >>), JStr(S_BTCUSDT), JStr(<<"b", "t", "c", "u", "s", "d", "t">>), JStr(<<"E", "T", "H", "B", "U", "S", "D">>),
     JStr(BTC_USDT), JStr(<<"B", "N", "B", "B", "T", "C">>), JStr(<<"B", "T", "C">>), JNum(7)}

TimeValues == {Absent, JNum(0), JNum(1500), JNum(2250), JStr(T_1500)}

LevelsValues ==
    {Absent, JArr(<< >>), JArr(<<JArr(<< >>)>>),
     JArr(<<Level(P_60000_10, Q_1_5)>>),
     JArr(<<Level(P_60001_20, Q_0_5)>>),
     JArr(<<Level(P_60000_10, Q_1_5), Level(P_60001_20, Q_0_5)>>),
     JArr(<<Level(P_60001_20, Q_0_5), Level(P_60000_10, Q_1_5)>>),
     JArr(<<Level(P_abc, Q_1_5)>>)}

TradePrices == {Absent, JStr(P_60000_10), JStr(<<"0">>), JStr(<<"-", "1">>), JStr(P_abc)}

\* {"e":"depthUpdate","E":..,"s":..,"b":[[price,qty],..],"a":[[price,qty],..]}
BinanceDepthMessages ==
    { JObj([e |-> JStr(S_depthUpdate), s |-> sv, E |-> tv, b |-> bv, a |-> av]) :
          sv \in SymbolValues, tv \in TimeValues,
          bv \in LevelsValues, av \in LevelsValues }

\* {"e":"aggTrade","s":..,"p":..,"T":..}
BinanceTradeMessages ==
    { JObj([e |-> JStr(S_aggTrade), s |-> sv, p |-> pv, T |-> tv]) :
          sv \in SymbolValues, pv \in TradePrices, tv \in TimeValues }

\* levels under the keys bids and asks, no event type
BidsAsksMessages ==
    { JObj([bids |-> bv, asks |-> av, s |-> JStr(S_BTCUSDT), E |-> tv]) :
          bv \in LevelsValues \ {Absent}, av \in LevelsValues \ {Absent},
          tv \in {JNum(1500), JNum(2250)} }

\* replies to a subscription, other events, documents that are no object
BinanceOtherMessages ==
    {JObj([result |-> JNone, id |-> JNum(1)]),
     JObj([e |-> JStr(<<"k", "l", "i", "n", "e">>), s |-> JStr(S_BTCUSDT), E |-> JNum(1500)]),
     JObj([e |-> JNum(1)]),
     JArr(<< >>), JNum(1), JNone, JStr(S_event)}

InstIds == {Absent, JStr(<< >>), JStr(<<"B", "T", "C", "-", "U", "S", "D", "T", "-", "S", "W", "A", "P">>), JStr(<<"B", "T", "C", "-", "U", "S", "D", "-", "S", "W", "A", "P">>),
            JStr(<<"B", "T", "C", "-", "U", "S", "D", "T">>), JNum(7)}

PxValues == {Absent, JStr(<< >>), JStr(P_60000_10), JStr(P_60001_20), JStr(P_abc)}

TsValues == {Absent, JStr(T_1500), JStr(T_2250), JStr(P_abc)}

\* the element of "data" of a tickers message
OkxDataItems ==
    { JObj([instId |-> iv, askPx |-> av, bidPx |-> bv, ts |-> tv,
            bestBid |-> Absent, bestAsk |-> Absent]) :
          iv \in InstIds, av \in PxValues, bv \in PxValues, tv \in TsValues }
    \cup
    { JObj([instId |-> JStr(<<"B", "T", "C", "-", "U", "S", "D", "T", "-", "S", "W", "A", "P">>), askPx |-> Absent, bidPx |-> Absent,
            ts |-> tv, bestBid |-> bv, bestAsk |-> av]) :
          av \in PxValues, bv \in PxValues, tv \in TsValues }

OkxDataValues ==
    {Absent, JArr(<< >>), JArr(<<JNum(1)>>)} \cup { JArr(<<item>>) : item \in OkxDataItems }

OkxArgValues ==
    {Absent,
     JObj([channel |-> JStr(S_tickers), instId |-> JStr(<<"B", "T", "C", "-", "U", "S", "D", "T", "-", "S", "W", "A", "P">>)]),
     JObj([channel |-> JStr(<<"b", "o", "o", "k", "s">>), instId |-> JStr(<<"B", "T", "C", "-", "U", "S", "D", "T", "-", "S", "W", "A", "P">>)]),
     JObj([instId |-> JStr(<<"B", "T", "C", "-", "U", "S", "D", "T", "-", "S", "W", "A", "P">>)]),
     JStr(S_tickers), JStr(S_channel), JNum(1)}

\* {"arg":{"channel":"tickers","instId":..},"data":[{..}]}
OkxChannelMessages ==
    { JObj([arg |-> gv, data |-> dv]) : gv \in OkxArgValues, dv \in OkxDataValues }

\* {"event":"subscribe",..}, {"event":"error",..}, documents that are no object
OkxOtherMessages ==
    {JObj([event |-> JStr(<<"s", "u", "b", "s", "c", "r", "i", "b", "e">>),
           arg |-> JObj([channel |-> JStr(S_tickers)])]),
     JObj([event |-> JStr(<<"e", "r", "r", "o", "r">>), msg |-> JStr(<<"b", "a", "d">>), code |-> JStr(<<"6", "0", "0", "1", "2">>)]),
     JObj([event |-> JNum(1),
           arg |-> JObj([channel |-> JStr(S_tickers)]),
           data |-> JArr(<<JNum(1)>>)]),
     JArr(<< >>), JNum(1), JNone, JStr(S_event), JStr(S_tickers)}

\* text that json.loads rejects
NonJsonTexts == {"ping", "pong", "", "{\"e\":"}

BinanceDocuments ==
    BinanceDepthMessages \cup BinanceTradeMessages \cup BidsAsksMessages
        \cup BinanceOtherMessages

OkxDocuments == OkxChannelMessages \cup OkxOtherMessages

\* an item whose exchange_name has no parser (lines 225-226)
UnhandledItem ==
    <<"bybit", JsonText(JObj([topic |-> JStr(<<"t", "i", "c", "k", "e", "r", "s", ".", "B", "T", "C", "U", "S", "D", "T">>)]))>>

\* the (exchange_name, raw_message) tuples of the queue
QueueItems ==
    ({"binance"} \X { JsonText(doc) : doc \in BinanceDocuments \cup OkxOtherMessages })
        \cup ({"okx"} \X { JsonText(doc) : doc \in OkxDocuments \cup BinanceOtherMessages })
        \cup ({"binance", "okx"} \X { PlainText(text) : text \in NonJsonTexts })
        \cup {UnhandledItem}

(***************************************************************************)
(* Each program is checked on its own: the variables of the others rest.   *)
(***************************************************************************)
DetIdle ==
    /\ latest_market_data = EmptyDict
    /\ exchanges_to_compare = << >>
    /\ iterations = 0
    /\ det_pc = "idle"
    /\ det_i = 0
    /\ printed = {}
    /\ sim_i = [ex \in SimExchanges |-> 0]

ConnIdle ==
    /\ exchange = "none"
    /\ pc = "idle"
    /\ attempts = 0
    /\ waited = 0
    /\ lastFailure = NoFailure
    /\ output_queue = NoQueue
    /\ handled = NoPass
    /\ elapsed = 0

FeedIdle ==
    /\ data_queue = << >>
    /\ market_data = EmptyDict
    /\ lm_pc = "idle"
    /\ raw = NoItem
    /\ parsed_update = None
    /\ lastPut = EmptyDict
    /\ arrival = NoArrival
    /\ feed_processes = << >>

NormIdle ==
    /\ second = NotCalled
    /\ concept_update = NotCalled
    /\ raw_data_output_queue = << >>
    /\ unified_order_book_store = EmptyDict
    /\ stop_event = FALSE
    /\ concept_pc = "idle"
    /\ caller = "none"
    /\ processed = << >>
    /\ timeouts = 0

\* the stores a caller may pass: per exchange no update or one with listed prices
CallerUpdates(ex) ==
    {None} \cup
    (IF ex \in SimExchanges
     THEN { OrderBookUpdate(ex, target_symbol, b, a, Seconds(0), 0) :
                b \in Prices, a \in Prices }
     ELSE { OrderBookUpdate(ex, target_symbol, 10000, 10100, Seconds(0), 0) })

CallerStore(f) ==
    LET present == { ex \in DOMAIN f : f[ex] # None }
    IN IF present = {} THEN EmptyDict
       ELSE [s \in {target_symbol} |-> [ex \in present |-> f[ex]]]

\* main, lines 139-169, with the store and the list of exchanges as inputs
InitDet ==
    /\ \E f \in [DetExchanges -> UNION { CallerUpdates(ex) : ex \in DetExchanges }] :
          /\ \A ex \in DetExchanges : f[ex] \in CallerUpdates(ex)
          /\ latest_market_data = CallerStore(f)
    /\ exchanges_to_compare \in ExchangeLists
    /\ iterations \in 1..MaxIterations
    /\ det_pc = "start"
    /\ det_i = 0
    /\ printed = {}
    /\ sim_i = [ex \in SimExchanges |-> 0]
    /\ now = 0
    /\ ConnIdle /\ FeedIdle /\ NormIdle

NextDet ==
    \/ \E ex \in SimExchanges : SimFeedStep(ex)
    \/ DetStart
    \/ DetCycle
    \/ DetWake
    \/ DetFinish

SpecDetector == InitDet /\ [][NextDet]_vars

\* the event loop resumes the detector: it runs a task that is ready and
\* fires the timer of a sleep; the feeds may stop at any point
FairSpecDetector ==
    /\ SpecDetector
    /\ WF_vars(DetStart)
    /\ WF_vars(DetCycle)
    /\ WF_vars(DetWake)
    /\ WF_vars(DetFinish)

(***************************************************************************)
(* Claims about calculate_arbitrage_opportunities.                         *)
(***************************************************************************)
\* a step that is one cycle of the detector's for loop
IsCycle == det_i' = det_i + 1

FoundLines(lines, buy, sell) ==
    { o \in lines : o.kind = "found" /\ o.buyExchange = buy /\ o.sellExchange = sell }

\* one direction of a cycle: reported iff the spread exceeds the threshold,
\* with the prices and the spread of that direction
DirectionRight(lines, buy, sell, buyUpdate, sellUpdate) ==
    /\ (FoundLines(lines, buy, sell) # {})
          <=> (sellUpdate.best_bid - buyUpdate.best_ask > ARBITRAGE_THRESHOLD)
    /\ \A o \in FoundLines(lines, buy, sell) :
          /\ o.buyPrice = buyUpdate.best_ask
          /\ o.sellPrice = sellUpdate.best_bid
          /\ o.spread = o.sellPrice - o.buyPrice

BothDirectionsRight ==
    LET X == exchanges_to_compare[1]
        Y == exchanges_to_compare[2]
        uX == Entry(latest_market_data, target_symbol, X)
        uY == Entry(latest_market_data, target_symbol, Y)
    IN /\ DirectionRight(printed', X, Y, uX, uY)
       /\ DirectionRight(printed', Y, X, uY, uX)
       /\ (uX.best_bid = 10000 /\ uX.best_ask = 10100 /\
           uY.best_bid = 10200 /\ uY.best_ask = 10300)
          => { o \in printed' : o.kind = "found" } =
                 { Found(det_i', target_symbol, X, 10100, Y, 10200, 100) }

HeldFirstTwo ==
    /\ Len(exchanges_to_compare) >= 2
    /\ Entry(latest_market_data, target_symbol, exchanges_to_compare[1]) # None
    /\ Entry(latest_market_data, target_symbol, exchanges_to_compare[2]) # None

HeldAllDistinct ==
    /\ HeldFirstTwo
    /\ \A k \in 1..Len(exchanges_to_compare) :
          Entry(latest_market_data, target_symbol, exchanges_to_compare[k]) # None
    /\ \A j, k \in 1..Len(exchanges_to_compare) :
          j # k => exchanges_to_compare[j] # exchanges_to_compare[k]

\* C1 as stated: in every cycle in which the store holds an update for the
\* first and for the second listed exchange, each direction is reported iff
\* its spread is strictly above the threshold, with buy price = ask of the
\* buy side, sell price = bid of the sell side and spread = sell - buy.
C1_AsStated == [][(IsCycle /\ HeldFirstTwo) => BothDirectionsRight]_vars

\* C1 amended: the same, in every cycle in which the store holds an update
\* for every listed exchange and the listed exchanges are pairwise distinct.
C1_Detector == [][(IsCycle /\ HeldAllDistinct) => BothDirectionsRight]_vars

\* C1 witness: a cycle has reported exactly the opportunity of the example,
\* buy Binance at 101.00, sell Bybit at 102.00, spread 1.00.
C1_Witness ==
    /\ det_pc = "sleep"
    /\ { o \in printed : o.kind = "found" } =
           { Found(det_i, target_symbol, "Binance", 10100, "Bybit", 10200, 100) }

MissingFirstOrSecond ==
    /\ Len(exchanges_to_compare) >= 2
    /\ \/ Entry(latest_market_data, target_symbol, exchanges_to_compare[1]) = None
       \/ Entry(latest_market_data, target_symbol, exchanges_to_compare[2]) = None

\* C2: a cycle that starts while the first or the second listed exchange has
\* no stored update reports no opportunity, raises no error (the detector is
\* then in its sleep, having counted the cycle), and the sleep leads back to
\* the head of the loop.
C2_MissingSkip ==
    [][/\ (IsCycle /\ MissingFirstOrSecond)
            => /\ { o \in printed' : o.kind = "found" } = {}
               /\ det_pc' = "sleep"
       /\ (det_pc = "sleep" /\ det_pc' # "sleep") => det_pc' = "loop"]_vars

\* C2 witness: a first cycle was skipped because Bybit has no update.
C2_Witness ==
    /\ det_pc = "sleep"
    /\ det_i = 1
    /\ exchanges_to_compare = <<"Binance", "Bybit">>
    /\ Entry(latest_market_data, target_symbol, "Bybit") = None
    /\ Entry(latest_market_data, target_symbol, "Binance") # None
    /\ printed = {}

\* asyncio.run(connect_<exchange>_ws(...)): with a queue or, standalone, without
InitConn ==
    /\ exchange \in FeedExchanges
    /\ pc = "connect"
    /\ attempts = 1
    /\ waited = 0
    /\ lastFailure = NoFailure
    /\ output_queue \in (IF TakesQueue(exchange) THEN {NoQueue, EmptyQueue}
                                                  ELSE {NoQueue})
    /\ handled = NoPass
    /\ elapsed = 0
    /\ now = 0
    /\ DetIdle /\ FeedIdle /\ NormIdle

ManagerStep ==
    \/ ConnectOK
    \/ ConnectFail
    \/ SubscribeOK
    \/ SubscribeFail
    \/ \E m \in ManagerMessages : \E w \in MessageWaits(exchange) : RecvMessage(m, w)
    \/ RecvTimeout
    \/ RecvFail
    \/ CloseSocket
    \/ SleepTick
    \/ SleepDone

NextConn ==
    \/ ManagerStep
    \/ Shutdown
    \/ QueueGet

SpecConn == InitConn /\ [][NextConn]_vars

\* the event loop completes a pending close and fires the sleep's timer
FairSpecConn ==
    /\ SpecConn
    /\ WF_vars(CloseSocket)
    /\ WF_vars(SleepTick)
    /\ WF_vars(SleepDone)

(***************************************************************************)
(* Claims about the connection managers.                                   *)
(***************************************************************************)
\* C4: whenever an established connection has been closed (the manager is
\* leaving `async with` after a failure on the open socket), the manager
\* eventually starts a new connection attempt, having slept the full
\* reconnect delay, unless it is shut down; by [] this holds after every
\* closure.
C4_ReconnectLiveness ==
    [](pc = "closing"
         => <>((pc = "connect" /\ waited = RECONNECT_DELAY_SECONDS) \/ pc = "stopped"))

\* C4 witness: a connection made by a reconnection (a second or later attempt)
\* has in turn been closed during recv.
C4_Witness ==
    /\ pc = "closing"
    /\ lastFailure = [at |-> "recv", exc |-> "ConnectionClosedError"]
    /\ attempts >= 2
    /\ waited = 0

Terminal == {"stopped", "returned", "crashed"}

\* C5: the manager reaches a terminal state only by the shutdown signal, and
\* every failure (connect refused or failed, subscription send, recv closed
\* or failed, keepalive send, pong send) leaves it closing the socket or in
\* the reconnect sleep, from where the only way on is a new attempt; the
\* attempts are not bounded (attempts only grows).
C5_NeverGivesUp ==
    [][/\ (pc' \in Terminal /\ pc \notin Terminal) => pc' = "stopped"
       /\ (lastFailure' # lastFailure /\ lastFailure' # NoFailure)
              => pc' \in {"closing", "sleep"}
       /\ (pc = "closing" /\ pc' # pc) => pc' \in {"sleep", "stopped"}
       /\ (pc = "sleep" /\ pc' # pc) => pc' \in {"connect", "stopped"}
       /\ attempts' >= attempts]_vars

\* C5 witness: on a reconnected connection the keepalive send failed and the
\* manager is in the reconnect sleep once more.
C5_Witness ==
    /\ pc = "sleep"
    /\ lastFailure.at = "keepalive"
    /\ attempts >= 2

(***************************************************************************)
(* live_feed_manager.py: the main block.  Items reach data_queue by the    *)
(* output_queue.put of connect_binance_ws and connect_okx_ws.              *)
(***************************************************************************)
\* lines 220-226: the parser chosen by exchange_name
Dispatch(item, clock) ==
    IF item[1] = "binance" THEN parse_binance_message(item[2], clock)
    ELSE IF item[1] = "okx" THEN parse_okx_message(item[2], clock)
    ELSE None

\* history of the store writes: per key the latest update, the one before it
\* and the number of writes
Written(history, update) ==
    LET key == <<update.symbol, update.exchange_name>>
    IN [k \in DOMAIN history \cup {key} |->
           IF k = key
           THEN [update |-> update,
                 before |-> IF key \in DOMAIN history THEN history[key].update
                                                      ELSE None,
                 writes |-> IF key \in DOMAIN history
                            THEN IF history[key].writes < MaxWrites
                                 THEN history[key].writes + 1
                                 ELSE MaxWrites
                            ELSE 1]
           ELSE history[k]]

\* a pass that empties the store when its item gave no quote
ConsumeClearing(item, result) ==
    /\ raw' = item
    /\ parsed_update' = result
    /\ arrival' = [arrival EXCEPT !.got = Append(@, [item |-> item, result |-> result])]
    /\ IF result.t = "update"
       THEN /\ market_data' = StorePut(market_data, result)
            /\ lastPut' = Written(lastPut, result)
       ELSE /\ market_data' = EmptyDict
            /\ UNCHANGED lastPut

\* timestamp a is earlier than timestamp b
Older(a, b) == a.sec < b.sec \/ (a.sec = b.sec /\ a.msec < b.msec)

\* a pass that stores its update only if the entry it finds is not newer
ConsumeNewerOnly(item, result) ==
    /\ raw' = item
    /\ parsed_update' = result
    /\ arrival' = [arrival EXCEPT !.got = Append(@, [item |-> item, result |-> result])]
    /\ IF /\ result.t = "update"
          /\ \/ Entry(market_data, result.symbol, result.exchange_name) = None
             \/ ~Older(result.timestamp,
                       Entry(market_data, result.symbol, result.exchange_name).timestamp)
       THEN /\ market_data' = StorePut(market_data, result)
            /\ lastPut' = Written(lastPut, result)
       ELSE UNCHANGED <<market_data, lastPut>>

\* lines 220-234: the pass on item, result being what the parser call gave
Consume(item, result) ==
    /\ raw' = item
    /\ parsed_update' = result
    /\ arrival' = [arrival EXCEPT !.got = Append(@, [item |-> item, result |-> result])]
    /\ IF result.t = "update"
       THEN /\ market_data' = StorePut(market_data, result)
            /\ lastPut' = Written(lastPut, result)
       ELSE UNCHANGED <<market_data, lastPut>>

\* the pass of the loop taking the newest item of the queue instead
ConsumeStepLast ==
    /\ lm_pc = "running"
    /\ Len(data_queue) > 0
    /\ Consume(data_queue[Len(data_queue)], Dispatch(data_queue[Len(data_queue)], now))
    /\ data_queue' = SubSeq(data_queue, 1, Len(data_queue) - 1)
    /\ UNCHANGED <<lm_pc, feed_processes, detVars, connVars, normVars, conceptVars, now>>

\* lines 218-243: one pass of the loop that finds an item in the queue
ConsumeStep ==
    /\ lm_pc = "running"
    /\ Len(data_queue) > 0
    /\ Consume(Head(data_queue), Dispatch(Head(data_queue), now))
    /\ data_queue' = Tail(data_queue)
    /\ UNCHANGED <<lm_pc, feed_processes, detVars, connVars, normVars, conceptVars, now>>

\* lines 237-240: queue.Empty after the timeout of one second
GetTimeout ==
    /\ lm_pc = "running"
    /\ Len(data_queue) = 0
    /\ now < MaxClock * MsPerTick
    /\ now' = now + MsPerTick
    /\ UNCHANGED <<detVars, connVars, feedVars, normVars, conceptVars>>

\* line 214: running_duration_seconds have passed
TimeUp ==
    /\ lm_pc = "running"
    /\ lm_pc' = "shutdown"
    /\ UNCHANGED <<data_queue, market_data, raw, parsed_update, lastPut, arrival,
                   feed_processes, detVars, connVars, normVars, conceptVars, now>>

\* lines 245-246
KeyboardInterrupt ==
    /\ lm_pc = "running"
    /\ lm_pc' = "shutdown"
    /\ UNCHANGED <<data_queue, market_data, raw, parsed_update, lastPut, arrival,
                   feed_processes, detVars, connVars, normVars, conceptVars, now>>

\* the store an interrupted pass leaves: as it was, or, when the pass got as
\* far as line 231, with an empty dict made for a symbol that had none
InterruptedStores(store, result) ==
    IF result.t = "update" THEN {store, Touch(store, result.symbol)} ELSE {store}

\* lines 218-232 and 245-246: Ctrl-C arrives inside a pass, after the item
\* was taken and parsed and before line 232 has stored the update
InterruptedPass ==
    /\ lm_pc = "running"
    /\ Len(data_queue) > 0
    /\ raw' = Head(data_queue)
    /\ parsed_update' = Dispatch(Head(data_queue), now)
    /\ data_queue' = Tail(data_queue)
    /\ market_data' \in InterruptedStores(market_data, Dispatch(Head(data_queue), now))
    /\ lm_pc' = "shutdown"
    /\ UNCHANGED <<lastPut, arrival, feed_processes, detVars, connVars, normVars, conceptVars, now>>

\* lines 186-206: the feeds the main block starts, in this order
ConfiguredFeeds == <<"binance", "okx">>

\* connect_binance_ws, connect_okx_ws, connect_bybit_ws and connect_bitget_ws
\* are declared `async def` (binance line 24, okx line 26)
IsCoroutineFunction(ex) == ex \in FeedExchanges

\* Process.run calls target(*args): the call of a coroutine function makes a
\* coroutine object and executes nothing of the body
CallTarget(ex) == IF IsCoroutineFunction(ex) THEN "coroutine" ELSE "connect loop"

\* lines 188-194: a started Process whose child has not yet called the target
NewProcess(ex) ==
    [name |-> ex, state |-> "started", target |-> "not called", visited |-> FALSE]

\* a child whose target is awaited and runs the `while True` of line 38
RunningProcess(ex) ==
    [name |-> ex, state |-> "started", target |-> "connect loop", visited |-> FALSE]

\* Process.is_alive()
Alive(process) == process.state \in {"started", "terminating"}

\* lines 186-206: Process(...), feed_processes.append(...), start(), for the
\* next configured feed; after the last one the main loop is entered
StartFeed ==
    /\ lm_pc = "starting"
    /\ feed_processes' =
           Append(feed_processes, NewProcess(ConfiguredFeeds[Len(feed_processes) + 1]))
    /\ lm_pc' = IF Len(feed_processes) + 1 = Len(ConfiguredFeeds)
                THEN "running" ELSE "starting"
    /\ UNCHANGED <<data_queue, market_data, raw, parsed_update, lastPut, arrival,
                   detVars, connVars, normVars, conceptVars, now>>

\* what is left of the child once the call of its target has given result:
\* it stays in the connect loop, or run() returns and the child exits
AfterCall(process, result) ==
    [process EXCEPT !.target = result,
                    !.state = IF result = "connect loop" THEN "started" ELSE "stopped"]

\* the child of process i calls its target
RunTarget(i) ==
    /\ i \in DOMAIN feed_processes
    /\ feed_processes[i].state = "started"
    /\ feed_processes[i].target = "not called"
    /\ feed_processes' =
           [feed_processes EXCEPT ![i] = AfterCall(@, CallTarget(@.name))]
    /\ UNCHANGED <<data_queue, market_data, lm_pc, raw, parsed_update, lastPut, arrival,
                   detVars, connVars, normVars, conceptVars, now>>

\* line 249: the process the for loop of the finally block is at
IsNext(i) ==
    /\ i \in DOMAIN feed_processes
    /\ ~feed_processes[i].visited
    /\ \A j \in 1..(i - 1) : feed_processes[j].visited

\* the process skipped by the finally block whether it is alive or not
TerminatedNever(process) == [process EXCEPT !.visited = TRUE]

\* lines 250-252: is_alive() and terminate(), which sends SIGTERM
Terminated(process) ==
    IF Alive(process) THEN [process EXCEPT !.state = "terminating"]
    ELSE [process EXCEPT !.visited = TRUE]

\* lines 249-252: the next process of the list is looked at
TerminateFeed(i) ==
    /\ lm_pc = "shutdown"
    /\ IsNext(i)
    /\ feed_processes' = [feed_processes EXCEPT ![i] = Terminated(@)]
    /\ lm_pc' = IF Alive(feed_processes[i]) THEN "joining" ELSE "shutdown"
    /\ UNCHANGED <<data_queue, market_data, raw, parsed_update, lastPut, arrival,
                   detVars, connVars, normVars, conceptVars, now>>

\* the child dies of the SIGTERM
FeedDies(i) ==
    /\ i \in DOMAIN feed_processes
    /\ feed_processes[i].state = "terminating"
    /\ feed_processes' = [feed_processes EXCEPT ![i].state = "terminated"]
    /\ UNCHANGED <<data_queue, market_data, lm_pc, raw, parsed_update, lastPut, arrival,
                   detVars, connVars, normVars, conceptVars, now>>

\* lines 254-256: is_alive() after the join, and kill(), which sends SIGKILL
Joined(process) ==
    IF Alive(process) THEN [process EXCEPT !.state = "killed", !.visited = TRUE]
    ELSE [process EXCEPT !.visited = TRUE]

\* lines 253-256: join(timeout=5) returns, the child having died or the five
\* seconds having passed
JoinFeed(i) ==
    /\ lm_pc = "joining"
    /\ IsNext(i)
    /\ feed_processes' = [feed_processes EXCEPT ![i] = Joined(@)]
    /\ lm_pc' = "shutdown"
    /\ UNCHANGED <<data_queue, market_data, raw, parsed_update, lastPut, arrival,
                   detVars, connVars, normVars, conceptVars, now>>

\* line 257: the for loop is over, "Shutdown complete."
ShutdownFeeds ==
    /\ lm_pc = "shutdown"
    /\ \A i \in DOMAIN feed_processes : feed_processes[i].visited
    /\ lm_pc' = "done"
    /\ UNCHANGED <<data_queue, market_data, raw, parsed_update, lastPut, arrival,
                   feed_processes, detVars, connVars, normVars, conceptVars, now>>

\* a ticker of OKX as the feed delivers it
FollowerItem ==
    <<"okx", JsonText(JObj([arg |-> JObj([channel |-> JStr(S_tickers),
                                           instId |-> JStr(<<"B", "T", "C", "-", "U", "S", "D", "T", "-", "S", "W", "A", "P">>)]),
                             data |-> JArr(<<JObj([instId |-> JStr(<<"B", "T", "C", "-", "U", "S", "D", "T", "-", "S", "W", "A", "P">>),
                                                   askPx |-> JStr(P_60001_20),
                                                   bidPx |-> JStr(P_60000_10),
                                                   ts |-> JStr(T_1500)])>>)]))>>

\* the reply of Binance to the subscription
AckItem == <<"binance", JsonText(JObj([result |-> JNone, id |-> JNum(1)]))>>

\* the messages of the feeds in the run of the main block
FeedItems ==
    {<<"binance", JsonText(JObj([e |-> JStr(S_depthUpdate), s |-> JStr(S_BTCUSDT),
                                 E |-> JNum(1500),
                                 b |-> JArr(<<Level(P_60000_10, Q_1_5)>>),
                                 a |-> JArr(<<Level(P_60001_20, Q_0_5)>>)]))>>,
     <<"binance", JsonText(JObj([e |-> JStr(S_depthUpdate), s |-> JStr(S_BTCUSDT),
                                 E |-> JNum(2250),
                                 b |-> JArr(<<Level(P_60001_20, Q_1_5)>>),
                                 a |-> JArr(<<Level(P_60001_20, Q_0_5)>>)]))>>,
     <<"binance", JsonText(JObj([e |-> JStr(S_aggTrade), s |-> JStr(<<"E", "T", "H", "B", "U", "S", "D">>),
                                 p |-> JStr(P_60000_10), T |-> JNum(1500)]))>>,
     <<"binance", JsonText(JObj([e |-> JStr(S_aggTrade), s |-> JStr(S_BTCUSDT),
                                 p |-> JStr(P_60000_10), T |-> JNum(1500)]))>>,
     AckItem,
     FollowerItem,
     <<"okx", PlainText("ping")>>,
     <<"bybit", JsonText(JObj([topic |-> JStr(<<"t", "i", "c", "k", "e", "r", "s", ".", "B", "T", "C", "U", "S", "D", "T">>)]))>>}

\* the child of process is in the inner loop of connect_<exchange_name>_ws
Puts(process, exchange_name) ==
    /\ Alive(process)
    /\ process.target = "connect loop"
    /\ process.name = exchange_name

\* binance_websocket_feed.py line 58, okx_websocket_feed.py line 62
FeedPut(item) ==
    /\ \E i \in DOMAIN feed_processes : Puts(feed_processes[i], item[1])
    /\ Len(data_queue) < MaxQueue
    /\ Len(arrival.put) < MaxPuts
    /\ data_queue' = Append(data_queue, item)
    /\ arrival' = [arrival EXCEPT !.put = Append(@, item)]
    /\ UNCHANGED <<market_data, lm_pc, raw, parsed_update, lastPut,
                   feed_processes, detVars, connVars, normVars, conceptVars, now>>

InitFeed ==
    /\ data_queue = << >>
    /\ market_data = EmptyDict
    /\ lm_pc = "running"
    /\ raw = NoItem
    /\ parsed_update = None
    /\ lastPut = EmptyDict
    /\ arrival = NoArrival
    /\ feed_processes = <<RunningProcess("binance"), RunningProcess("okx")>>
    /\ now = 0
    /\ DetIdle /\ ConnIdle /\ NormIdle

NextFeed ==
    \/ \E item \in FeedItems : FeedPut(item)
    \/ ConsumeStep
    \/ GetTimeout
    \/ TimeUp
    \/ KeyboardInterrupt
    \/ InterruptedPass
    \/ \E i \in 1..Len(ConfiguredFeeds) : TerminateFeed(i)
    \/ \E i \in 1..Len(ConfiguredFeeds) : FeedDies(i)
    \/ \E i \in 1..Len(ConfiguredFeeds) : JoinFeed(i)
    \/ ShutdownFeeds

\* the main loop and the shutdown with the two feeds in their connect loops,
\* each putting what it receives on data_queue
SpecFeed == InitFeed /\ [][NextFeed]_vars

\* line 179: the main block from its first statement
InitMain ==
    /\ data_queue = << >>
    /\ market_data = EmptyDict
    /\ lm_pc = "starting"
    /\ raw = NoItem
    /\ parsed_update = None
    /\ lastPut = EmptyDict
    /\ arrival = NoArrival
    /\ feed_processes = << >>
    /\ now = 0
    /\ DetIdle /\ ConnIdle /\ NormIdle

\* the children put nothing on data_queue, so every pass of the main loop
\* ends in queue.Empty
NextMain ==
    \/ StartFeed
    \/ \E i \in 1..Len(ConfiguredFeeds) : RunTarget(i)
    \/ GetTimeout
    \/ TimeUp
    \/ KeyboardInterrupt
    \/ \E i \in 1..Len(ConfiguredFeeds) : TerminateFeed(i)
    \/ \E i \in 1..Len(ConfiguredFeeds) : FeedDies(i)
    \/ \E i \in 1..Len(ConfiguredFeeds) : JoinFeed(i)
    \/ ShutdownFeeds

\* the main block as it is written
SpecMain == InitMain /\ [][NextMain]_vars

(***************************************************************************)
(* The parsers on one message: the pass of the main loop that takes it,    *)
(* a second call on the same message at a later time, and the parser of    *)
(* feed_manager_concept.py on it.                                          *)
(***************************************************************************)
S_BTC_USDT_SWAP == <<"B", "T", "C", "-", "U", "S", "D", "T", "-", "S", "W", "A", "P">>

\* EXCHANGE_FEEDS_CONFIG: the symbol handed to the parser of an exchange
ConfigSymbol(exchange_name) ==
    IF exchange_name = "binance" THEN BTC_USDT ELSE S_BTC_USDT_SWAP

\* time.time() moves on, watched from the first pass of the loop
Tick ==
    /\ raw # NoItem
    /\ now < MaxClock * MsPerTick
    /\ now' = now + MsPerTick
    /\ UNCHANGED <<detVars, connVars, feedVars, normVars, conceptVars>>

\* the parser of the latest pass called again on its raw_message
Renormalize ==
    /\ raw # NoItem
    /\ second' = [of |-> raw, at |-> now, result |-> Dispatch(raw, now)]
    /\ UNCHANGED <<concept_update, detVars, connVars, feedVars, conceptVars, now>>

\* parse_binance_data or parse_okx_ticker called on the raw_message
ParseConcept ==
    /\ raw # NoItem
    /\ raw[1] \in {"binance", "okx"}
    /\ concept_update' =
           [of |-> raw,
            result |-> IF raw[1] = "binance"
                       THEN parse_binance_data(raw[2], ConfigSymbol("binance"), now)
                       ELSE parse_okx_ticker(raw[2], ConfigSymbol("okx"), now)]
    /\ UNCHANGED <<second, detVars, connVars, feedVars, conceptVars, now>>

P_60049_5 == <<"6", "0", "0", "4", "9", ".", "5">>

P_60050_5 == <<"6", "0", "0", "5", "0", ".", "5">>

TickerTimes == {T_1500, T_2250}

\* the ticker of the OKX scenario: a data array without arg
OkxScenarioTicker(ts) ==
    <<"okx",
      JsonText(JObj([data |-> JArr(<<JObj([instId |-> JStr(S_BTC_USDT_SWAP),
                                           bidPx |-> JStr(P_60049_5),
                                           askPx |-> JStr(P_60050_5),
                                           ts |-> JStr(ts)])>>)]))>>

\* the same ticker as OKX sends it on the tickers channel
OkxScenarioChannelTicker(ts) ==
    <<"okx",
      JsonText(JObj([arg |-> JObj([channel |-> JStr(S_tickers),
                                   instId |-> JStr(S_BTC_USDT_SWAP)]),
                     data |-> JArr(<<JObj([instId |-> JStr(S_BTC_USDT_SWAP),
                                           bidPx |-> JStr(P_60049_5),
                                           askPx |-> JStr(P_60050_5),
                                           ts |-> JStr(ts)])>>)]))>>

OkxScenarioItems ==
    { OkxScenarioTicker(ts) : ts \in TickerTimes }
        \cup { OkxScenarioChannelTicker(ts) : ts \in TickerTimes }

\* native symbols of Binance: a base, then the quote currency
SymbolBases == {<<"B">>, <<"B", "T", "C">>, <<"E", "T", "H">>, <<"b", "t", "c">>, <<"U", "S", "D", "T">>, <<"B", "U", "S", "D">>}

SymbolQuotes == {S_USDT, S_BUSD}

\* an aggTrade of the native symbol base + quote
BinanceSymbolItem(base, quote) ==
    <<"binance",
      JsonText(JObj([e |-> JStr(S_aggTrade), s |-> JStr(base \o quote),
                     p |-> JStr(P_60000_10), T |-> JNum(1500)]))>>

BinanceSymbolItems ==
    { BinanceSymbolItem(base, quote) : base \in SymbolBases, quote \in SymbolQuotes }

InitNorm ==
    /\ \/ \E item \in QueueItems \cup OkxScenarioItems \cup BinanceSymbolItems :
              data_queue = <<item, FollowerItem>>
       \/ \E item \in {UnhandledItem, AckItem} : data_queue = <<FollowerItem, item>>
    /\ market_data = EmptyDict
    /\ lm_pc = "running"
    /\ raw = NoItem
    /\ parsed_update = None
    /\ lastPut = EmptyDict
    /\ arrival = [put |-> data_queue, got |-> << >>]
    /\ feed_processes = << >>
    /\ now = 0
    /\ DetIdle /\ ConnIdle /\ NormIdle

NextNorm ==
    \/ ConsumeStep
    \/ Tick
    \/ Renormalize
    \/ ParseConcept

SpecNorm == InitNorm /\ [][NextNorm]_vars

(***************************************************************************)
(* Properties of the store of the live feed manager.                       *)
(***************************************************************************)
StoreKeys(store) ==
    UNION { { <<s, e>> : e \in DOMAIN store[s] } : s \in DOMAIN store }

\* C3: the entry under every (symbol, exchange) key is the update of the latest
\* write to that key, whatever was written to it before and whatever has been
\* written to other keys since; the store has no entry that was never written.
C3_LastWriterWins ==
    /\ \A key \in DOMAIN lastPut :
           Entry(market_data, key[1], key[2]) = lastPut[key].update
    /\ StoreKeys(market_data) = DOMAIN lastPut

C3_Witness ==
    /\ <<BTC_USDT, "okx">> \in DOMAIN lastPut
    /\ <<BTC_USDT, "binance">> \in DOMAIN lastPut
    /\ lastPut[<<BTC_USDT, "binance">>].before.t = "update"
    /\ lastPut[<<BTC_USDT, "binance">>].before
           # lastPut[<<BTC_USDT, "binance">>].update
    /\ raw[1] = "binance"
    /\ parsed_update = lastPut[<<BTC_USDT, "binance">>].update
    /\ Entry(market_data, BTC_USDT, "binance") = parsed_update
    /\ Entry(market_data, BTC_USDT, "okx") = lastPut[<<BTC_USDT, "okx">>].update

(***************************************************************************)
(* Properties of the parsers.  The expected prices and symbols are written *)
(* out here, not computed by the operators of the model.                   *)
(***************************************************************************)
IsObject(item) == item[2].t = "json" /\ item[2].v.t = "obj"

Field(item, key) == Get(item[2].v, key)

KnownPrices == {P_60000_10, P_60001_20}

PriceValue(chars) == IF chars = P_60000_10 THEN 6000010 ELSE 6000120

IsPrice(x) == x.t = "str" /\ x.v \in KnownPrices

\* the first entry of levels is [price, quantity, ...] with a decimal price
HasFirstPrice(levels) ==
    /\ levels.t = "arr"
    /\ Len(levels.v) > 0
    /\ levels.v[1].t = "arr"
    /\ Len(levels.v[1].v) > 0
    /\ IsPrice(levels.v[1].v[1])

FirstPrice(levels) == PriceValue(levels.v[1].v[1].v)

WellFormedDepth(item) ==
    /\ item[1] = "binance"
    /\ IsObject(item)
    /\ JStrEq(Field(item, "e"), S_depthUpdate)
    /\ HasFirstPrice(Field(item, "b"))
    /\ HasFirstPrice(Field(item, "a"))
    /\ Field(item, "s").t = "str"
    /\ Len(Field(item, "s").v) > 0
    /\ Field(item, "E").t = "num"
    /\ Field(item, "E").v > 0

WellFormedBidsAsks(item) ==
    /\ item[1] = "binance"
    /\ IsObject(item)
    /\ HasFirstPrice(Field(item, "bids"))
    /\ HasFirstPrice(Field(item, "asks"))

ConceptCalledOnRaw == concept_update # NotCalled /\ concept_update.of = raw

\* C6: a Binance depthUpdate message with a symbol, an event time and non-empty
\* bids and asks gives a quote of exchange 'binance' whose best bid is the
\* price of the first bid entry and whose best ask is the price of the first
\* ask entry; parse_binance_data does the same for the keys bids and asks.
C6_BinanceDepth ==
    /\ WellFormedDepth(raw) =>
           /\ parsed_update.t = "update"
           /\ parsed_update.exchange_name = "binance"
           /\ parsed_update.best_bid = FirstPrice(Field(raw, "b"))
           /\ parsed_update.best_ask = FirstPrice(Field(raw, "a"))
    /\ (ConceptCalledOnRaw /\ WellFormedBidsAsks(raw)) =>
           /\ concept_update.result.t = "update"
           /\ concept_update.result.exchange_name = "binance"
           /\ concept_update.result.best_bid = FirstPrice(Field(raw, "bids"))
           /\ concept_update.result.best_ask = FirstPrice(Field(raw, "asks"))

C6_Witness ==
    /\ WellFormedDepth(raw)
    /\ Len(Field(raw, "b").v) = 2
    /\ Len(Field(raw, "a").v) = 2
    /\ parsed_update.t = "update"
    /\ parsed_update.best_bid = 6000120
    /\ parsed_update.best_ask = 6000010

\* a message of the tickers channel whose data has a first element
OkxTickerItem(item) ==
    /\ item[1] = "okx"
    /\ IsObject(item)
    /\ ~Has(item[2].v, "event")
    /\ Field(item, "arg").t = "obj"
    /\ JStrEq(Get(Field(item, "arg"), "channel"), S_tickers)
    /\ Field(item, "data").t = "arr"
    /\ Len(Field(item, "data").v) > 0
    /\ Field(item, "data").v[1].t = "obj"

TickerData(item) == Field(item, "data").v[1]

CarriesBidAsk(item) ==
    /\ OkxTickerItem(item)
    /\ IsPrice(Get(TickerData(item), "bidPx"))
    /\ IsPrice(Get(TickerData(item), "askPx"))

KnownInstIds == {S_BTC_USDT_SWAP, <<"B", "T", "C", "-", "U", "S", "D", "-", "S", "W", "A", "P">>, <<"B", "T", "C", "-", "U", "S", "D", "T">>}

CarriesSymbolAndTime(item) ==
    /\ Get(TickerData(item), "instId").t = "str"
    /\ Get(TickerData(item), "instId").v \in KnownInstIds
    /\ Get(TickerData(item), "ts").t = "str"
    /\ Get(TickerData(item), "ts").v \in {T_1500, T_2250}

\* the symbol parse_okx_message gives an instrument
MappedInstId(inst_id) ==
    IF inst_id = S_BTC_USDT_SWAP THEN BTC_USDT
    ELSE IF inst_id = <<"B", "T", "C", "-", "U", "S", "D", "-", "S", "W", "A", "P">> THEN <<"B", "T", "C", "/", "U", "S", "D", "_", "I", "N", "V", "E", "R", "S", "E">>
    ELSE inst_id

BidAskUnchanged(item, u) ==
    /\ u.t = "update"
    /\ u.exchange_name = "okx"
    /\ u.best_bid = PriceValue(Get(TickerData(item), "bidPx").v)
    /\ u.best_ask = PriceValue(Get(TickerData(item), "askPx").v)

CarriesBestBidAsk(item) ==
    /\ item[1] = "okx"
    /\ IsObject(item)
    /\ Field(item, "data").t = "arr"
    /\ Len(Field(item, "data").v) > 0
    /\ Field(item, "data").v[1].t = "obj"
    /\ IsPrice(Get(TickerData(item), "bestBid"))
    /\ IsPrice(Get(TickerData(item), "bestAsk"))

MissingAny(d, keys) == \E key \in keys : ~Has(d, key)

\* the messages that are no quote, told by their form alone
NotAQuote(item) ==
    \/ item[1] \notin {"binance", "okx"}
    \/ item[2].t = "text"
    \/ ~IsObject(item)
    \/ /\ item[1] = "binance"
       /\ IsObject(item)
       /\ \/ ~(\/ JStrEq(Field(item, "e"), S_aggTrade)
               \/ JStrEq(Field(item, "e"), S_depthUpdate))
          \/ /\ JStrEq(Field(item, "e"), S_depthUpdate)
             /\ MissingAny(item[2].v, {"s", "E", "b", "a"})
          \/ /\ JStrEq(Field(item, "e"), S_aggTrade)
             /\ MissingAny(item[2].v, {"s", "p", "T"})
    \/ /\ item[1] = "okx"
       /\ IsObject(item)
       /\ \/ Has(item[2].v, "event")
          \/ ~OkxTickerItem(item)
          \/ MissingAny(TickerData(item), {"instId", "askPx", "bidPx", "ts"})

\* the ticker that follows in the queue has been taken
FollowerTaken == raw = FollowerItem /\ Len(data_queue) = 0

\* C8: whatever the message, the parser call of a pass ends without an
\* exception; for text that is no JSON, documents that are no object,
\* acknowledgements, error envelopes, unknown events and messages that lack a
\* required field it gives None; the loop is still running afterwards, and
\* the ticker that follows in the queue is parsed and stored whatever the
\* message before it was.
C8_NotAQuote ==
    /\ raw # NoItem =>
           /\ parsed_update.t \in {"none", "update"}
           /\ NotAQuote(raw) => parsed_update = None
           /\ lm_pc = "running"
    /\ FollowerTaken =>
           /\ parsed_update.t = "update"
           /\ Entry(market_data, BTC_USDT, "okx") = parsed_update

C8_Witness ==
    /\ FollowerTaken
    /\ parsed_update.t = "update"
    /\ StoreKeys(market_data) = {<<BTC_USDT, "okx">>}
    /\ lastPut[<<BTC_USDT, "okx">>].writes = 1
    /\ lm_pc = "running"

SecondCallOnRaw == second # NotCalled /\ second.of = raw

\* C9: a second call of the parser on the raw message of a pass, at any later
\* time and whatever the store holds by then, gives what the call of the pass
\* gave: None both times, or two updates equal in every field, the timestamp
\* included.
C9_Deterministic == SecondCallOnRaw => second.result = parsed_update

C9_Witness ==
    /\ SecondCallOnRaw
    /\ raw # FollowerItem
    /\ second.at > 0
    /\ second.result.t = "update"
    /\ market_data # EmptyDict

ScenarioTimes == {1500, 2250}

\* the message of the scenario: levels under bids and asks, no event type
ScenarioMessage(ts) ==
    <<"binance",
      JsonText(JObj([bids |-> JArr(<<Level(P_60000_10, Q_1_5)>>),
                     asks |-> JArr(<<Level(P_60001_20, Q_0_5)>>),
                     s |-> JStr(S_BTCUSDT), E |-> JNum(ts)]))>>

\* the same levels as Binance sends them in a depthUpdate event
ScenarioDepthUpdate(ts) ==
    <<"binance",
      JsonText(JObj([e |-> JStr(S_depthUpdate),
                     b |-> JArr(<<Level(P_60000_10, Q_1_5)>>),
                     a |-> JArr(<<Level(P_60001_20, Q_0_5)>>),
                     s |-> JStr(S_BTCUSDT), E |-> JNum(ts)]))>>

ScenarioQuote(u) ==
    /\ u.t = "update"
    /\ u.exchange_name = "binance"
    /\ u.symbol = BTC_USDT
    /\ u.best_bid = 6000010
    /\ u.best_ask = 6000120

\* C10 as stated: the message with the keys bids and asks gives the quote.
C10_AsStated ==
    \A ts \in ScenarioTimes : raw = ScenarioMessage(ts) => ScenarioQuote(parsed_update)

\* C10: parse_binance_message gives the quote of the scenario for the
\* depthUpdate event with the levels under b and a, and None for the message
\* with the keys bids and asks, from which parse_binance_data called with
\* 'BTC/USDT' gives the quote.
C10_BinanceScenario ==
    \A ts \in ScenarioTimes :
        /\ raw = ScenarioDepthUpdate(ts) => ScenarioQuote(parsed_update)
        /\ raw = ScenarioMessage(ts) =>
               /\ parsed_update = None
               /\ ConceptCalledOnRaw => ScenarioQuote(concept_update.result)

C10_Witness ==
    /\ raw = ScenarioDepthUpdate(1500)
    /\ ScenarioQuote(parsed_update)
    /\ Entry(market_data, BTC_USDT, "binance") = parsed_update

(***************************************************************************)
(* C11: the OKX scenario.                                                  *)
(***************************************************************************)
OkxScenarioQuote(u) ==
    /\ u.t = "update"
    /\ u.exchange_name = "okx"
    /\ u.symbol = BTC_USDT
    /\ u.best_bid = 6004950
    /\ u.best_ask = 6005050

\* C11 as stated: the ticker that is a data array only gives the quote.
C11_AsStated ==
    \A ts \in TickerTimes :
        raw = OkxScenarioTicker(ts) => OkxScenarioQuote(parsed_update)

\* C11: parse_okx_message gives the quote of the scenario for the ticker
\* inside the envelope arg with the channel tickers, and None for the ticker
\* that is a data array only, for which parse_okx_ticker gives None as well.
C11_OkxScenario ==
    \A ts \in TickerTimes :
        /\ raw = OkxScenarioChannelTicker(ts) => OkxScenarioQuote(parsed_update)
        /\ raw = OkxScenarioTicker(ts) =>
               /\ parsed_update = None
               /\ ConceptCalledOnRaw => concept_update.result = None

C11_Witness ==
    /\ raw = OkxScenarioChannelTicker(T_2250)
    /\ OkxScenarioQuote(parsed_update)
    /\ Entry(market_data, BTC_USDT, "okx") = parsed_update

(***************************************************************************)
(* Claims about the main block of live_feed_manager.py.                    *)
(***************************************************************************)
\* the child is alive and, its target once called, inside the connect loop
InConnectLoop(process) ==
    /\ process.state = "started"
    /\ process.target \in {"not called", "connect loop"}

\* C12: while the main block listens for data, the feed process of each
\* configured exchange (binance and okx) is alive and runs the connect loop
\* of its connection manager, the loop in which it attempts connections and
\* puts the messages it receives on data_queue.
C12_FeedsConnect ==
    lm_pc = "running" =>
        /\ Len(feed_processes) = Len(ConfiguredFeeds)
        /\ \A i \in DOMAIN feed_processes : InConnectLoop(feed_processes[i])

\* the items of one exchange in a sequence of queue items, in order
OfExchange(items, exchange_name) ==
    SelectSeq(items, LAMBDA item : item[1] = exchange_name)

\* the items taken from the queue, in the order of their passes
Taken == [k \in 1..Len(arrival.got) |-> arrival.got[k].item]

IsPrefix(s, t) == Len(s) <= Len(t) /\ SubSeq(t, 1, Len(s)) = s

\* the passes whose item gave a quote for key, a pair (symbol, exchange)
QuotesFor(key) ==
    { k \in 1..Len(arrival.got) :
          /\ arrival.got[k].item[1] = key[2]
          /\ arrival.got[k].result.t = "update"
          /\ arrival.got[k].result.symbol = key[1] }

Latest(positions) == CHOOSE k \in positions : \A j \in positions : j <= k

\* C14: for each exchange the items the main loop has taken and processed
\* are, in order, the first of the items that exchange's manager has put on
\* data_queue, however the puts of the two managers interleave; and every
\* quote in the store is the one of the latest item processed that gave a
\* quote for its exchange and symbol.
C14_ArrivalOrder ==
    /\ \A ex \in {"binance", "okx"} :
           IsPrefix(OfExchange(Taken, ex), OfExchange(arrival.put, ex))
    /\ \A key \in StoreKeys(market_data) :
           /\ QuotesFor(key) # {}
           /\ Entry(market_data, key[1], key[2])
                  = arrival.got[Latest(QuotesFor(key))].result

\* two different quotes of binance, an item of okx put between them, are
\* all processed and the second binance quote is the stored one
C14_Witness ==
    /\ Len(arrival.got) = 3
    /\ arrival.got[1].item[1] = "binance"
    /\ arrival.got[2].item[1] = "okx"
    /\ arrival.got[3].item[1] = "binance"
    /\ arrival.got[1].result.t = "update"
    /\ parsed_update.t = "update"
    /\ parsed_update # arrival.got[1].result
    /\ parsed_update.symbol = arrival.got[1].result.symbol
    /\ Entry(market_data, parsed_update.symbol, "binance") = parsed_update

\* C15: when the main block has printed "Shutdown complete.", every item
\* that was put on data_queue has been taken, parsed and, if it gave a
\* quote, stored: the queue is empty.
C15_Drained ==
    lm_pc = "done" => data_queue = << >> /\ Taken = arrival.put

\* the step puts an item on data_queue
QueueWrite == Len(data_queue') > Len(data_queue)

\* C16: once "Shutdown complete." is printed no feed process is alive: each
\* one that was alive in the finally block has died of the SIGTERM of
\* terminate() or was killed after the join; and from then on nothing is put
\* on data_queue and no process changes.
C16_NoneAlive ==
    /\ [](lm_pc = "done" =>
              \A i \in DOMAIN feed_processes :
                  /\ ~Alive(feed_processes[i])
                  /\ feed_processes[i].state \in {"terminated", "killed", "stopped"})
    /\ [][lm_pc = "done" => ~QueueWrite /\ feed_processes' = feed_processes]_vars

\* both managers were in their loops when the shutdown began; one died of
\* the SIGTERM, the other had to be killed
C16_Witness ==
    /\ lm_pc = "done"
    /\ Len(feed_processes) = 2
    /\ feed_processes[1].target = "connect loop"
    /\ feed_processes[1].state = "terminated"
    /\ feed_processes[2].state = "killed"
    /\ Len(arrival.put) > 0

(***************************************************************************)
(* Claims about the receive loop of the connection managers.               *)
(***************************************************************************)
\* the step is a pass of the inner loop in which the frame m has arrived
Received(m) == \E w \in MessageWaits(exchange) : RecvMessage(m, w)

\* the pass put (exchange, m) at the end of the queue
PutOnQueue(m) ==
    /\ output_queue.given
    /\ output_queue'.items = Append(output_queue.items, <<exchange, m>>)

\* the manager is in the receive loop after a pass in which no send failed
StaysReceiving == lastFailure' = NoFailure => pc' = "recv"

ManagerPositions == {"connect", "subscribe", "recv", "closing", "sleep"}

\* C17: a manager enters the receive loop only from a connection it has
\* just opened and by sending the subscription: the step into "recv" starts
\* where the handshake succeeded, the subscription is the one frame sent, no
\* frame has been waited for on this connection and nothing was forwarded by
\* the step; a successful handshake leads nowhere else than to that send; and
\* while no frame has been waited for on the connection the subscription is
\* the latest thing sent.  This holds for the first connection and for every
\* reconnection.
C17_SubscribeFirst ==
    /\ [][pc' = "recv" /\ pc # "recv" =>
              /\ pc = "subscribe"
              /\ handled = NoPass
              /\ handled' = Pass("none", FALSE, <<"subscribe">>)
              /\ output_queue' = output_queue]_vars
    /\ [][pc = "connect" /\ pc' \in ManagerPositions =>
              pc' \in {"connect", "subscribe", "sleep"} /\ handled' \in {handled, NoPass}]_vars
    /\ [](pc = "recv" /\ handled.message = "none" => handled.sent = <<"subscribe">>)
    /\ [](pc = "subscribe" => handled = NoPass)

\* a reconnection: the subscription has been sent on a second connection
\* and a data message then received and forwarded
C17_Witness ==
    /\ attempts >= 2
    /\ pc = "recv"
    /\ handled.message = "data"
    /\ exchange = "binance"
    /\ Len(output_queue.items) > 0

\* the keepalive of each adapter, as the claim lists them
AdapterKeepalive(ex) ==
    CASE ex = "binance" -> "ping frame"
      [] ex = "okx" -> "ping"
      [] ex = "bitget" -> "ping"
      [] ex = "bybit" -> "{\"op\": \"ping\"}"

\* the step is a pass of the inner loop whose wait timed out, no send failing
TimedOut == RecvTimeout /\ lastFailure' = NoFailure

\* C18 as stated: after every timeout of the wait the manager has sent its
\* adapter's keepalive and is in the receive loop.
C18_AsStated ==
    [][TimedOut => handled'.sent = <<AdapterKeepalive(exchange)>> /\ pc' = "recv"]_vars

\* C18: after a timeout of the wait the OKX, Bitget and Bybit managers have
\* sent their keepalive, once; the Binance manager, whose wait is 75 seconds,
\* has sent its ping frame only if 150 seconds have passed since
\* last_ping_time, and nothing otherwise; each is in the receive loop then.
C18_Keepalive ==
    [][TimedOut =>
           /\ pc' = "recv"
           /\ handled'.message = "timeout"
           /\ handled'.sent = IF exchange = "binance" /\ elapsed + 75 < 150
                              THEN << >>
                              ELSE <<AdapterKeepalive(exchange)>>]_vars

\* the Binance manager has sent its ping frame at a timeout
C18_Witness ==
    /\ exchange = "binance"
    /\ pc = "recv"
    /\ handled = Pass("timeout", FALSE, <<"ping frame">>)
    /\ elapsed = 0

\* C19: when the OKX or the Bitget manager receives the text "ping" in the
\* receive loop and its reply does not fail, it has sent the text "pong",
\* and only that, on the connection; it is still in the receive loop, on the
\* same connection, and no reconnect delay has begun.
C19_Pong ==
    [][Received("ping") /\ exchange \in {"okx", "bitget"} /\ lastFailure' = NoFailure =>
           /\ handled'.message = "ping"
           /\ handled'.sent = <<"pong">>
           /\ pc' = "recv"
           /\ attempts' = attempts
           /\ waited' = waited]_vars

\* the Bitget manager has received a "ping", printed it and sent "pong"
C19_Witness ==
    /\ exchange = "bitget"
    /\ pc = "recv"
    /\ handled = Pass("ping", TRUE, <<"pong">>)
    /\ elapsed = 0

(***************************************************************************)
(* C20: the canonical symbol of a Binance symbol.                          *)
(***************************************************************************)
\* bases in upper case that contain neither quote currency
PlainBases == {<<"B">>, <<"B", "T", "C">>, <<"E", "T", "H">>}

\* the canonical symbols the code gives, written out
CanonicalOf(base, quote) ==
    CASE base \in PlainBases -> base \o <<"/">> \o quote
      [] base = <<"b", "t", "c">> -> <<"B", "T", "C", "/">> \o quote
      [] base = <<"B", "U", "S", "D">> /\ quote = S_USDT -> <<"B", "U", "S", "D", "/", "U", "S", "D", "T">>
      [] base = <<"B", "U", "S", "D">> /\ quote = S_BUSD -> <<"/", "B", "U", "S", "D", "/", "B", "U", "S", "D">>
      [] base = <<"U", "S", "D", "T">> /\ quote = S_USDT -> <<"/", "U", "S", "D", "T", "/", "U", "S", "D", "T">>
      [] base = <<"U", "S", "D", "T">> /\ quote = S_BUSD -> <<"/", "U", "S", "D", "T", "B", "U", "S", "D">>

\* C20 as stated: every base in upper case followed by USDT or BUSD gives
\* base + "/" + quote.
C20_AsStated ==
    \A base \in SymbolBases \ {<<"b", "t", "c">>} : \A quote \in SymbolQuotes :
        raw = BinanceSymbolItem(base, quote) =>
            /\ parsed_update.t = "update"
            /\ parsed_update.symbol = base \o <<"/">> \o quote

\* C20: parse_binance_message gives base + "/" + quote, the base in upper
\* case, for a native symbol whose base does not contain USDT and, when the
\* quote is BUSD, does not contain BUSD either; a base that does gets a
\* separator before each occurrence, and USDT is looked for first
\* (USDTBUSD gives /USDTBUSD); a second call on the same message gives the
\* same symbol.
C20_BinanceSymbol ==
    \A base \in SymbolBases : \A quote \in SymbolQuotes :
        raw = BinanceSymbolItem(base, quote) =>
            /\ parsed_update.t = "update"
            /\ parsed_update.symbol = CanonicalOf(base, quote)
            /\ SecondCallOnRaw =>
                   /\ second.result.t = "update"
                   /\ second.result.symbol = parsed_update.symbol

C20_Witness ==
    /\ raw = BinanceSymbolItem(<<"E", "T", "H">>, S_BUSD)
    /\ parsed_update.t = "update"
    /\ parsed_update.symbol = <<"E", "T", "H", "/", "B", "U", "S", "D">>
    /\ SecondCallOnRaw
    /\ second.at > 0

(***************************************************************************)
(* Properties of the trade branch and of the other kinds of message.       *)
(***************************************************************************)
\* an aggTrade with a decimal trade price, a symbol and a trade time
WellFormedTrade(item) ==
    /\ item[1] = "binance"
    /\ IsObject(item)
    /\ JStrEq(Field(item, "e"), S_aggTrade)
    /\ IsPrice(Field(item, "p"))
    /\ Field(item, "s").t = "str"
    /\ Len(Field(item, "s").v) > 0
    /\ Field(item, "T").t = "num"
    /\ Field(item, "T").v > 0

\* a message of Binance that is neither a depth update nor a trade
OtherKind(item) ==
    /\ item[1] = "binance"
    /\ \/ ~IsObject(item)
       \/ ~(\/ JStrEq(Field(item, "e"), S_aggTrade)
            \/ JStrEq(Field(item, "e"), S_depthUpdate))

\* C21: a Binance aggTrade message with a trade price (a decimal other than
\* zero), a symbol (a non-empty string) and a trade time (a number of
\* milliseconds other than zero) gives a quote of exchange 'binance' whose best bid and best ask both
\* equal the trade price; a Binance message that is neither a depthUpdate nor
\* an aggTrade (an acknowledgement, another event, a document that is no
\* object, text that is no JSON) gives None.
C21_TradePrint ==
    /\ (raw # NoItem /\ WellFormedTrade(raw)) =>
           /\ parsed_update.t = "update"
           /\ parsed_update.exchange_name = "binance"
           /\ parsed_update.best_bid = PriceValue(Field(raw, "p").v)
           /\ parsed_update.best_ask = PriceValue(Field(raw, "p").v)
    /\ (raw # NoItem /\ OtherKind(raw)) => parsed_update = None

C21_Witness ==
    /\ raw # NoItem
    /\ WellFormedTrade(raw)
    /\ Field(raw, "s") = JStr(S_BTCUSDT)
    /\ parsed_update.t = "update"
    /\ parsed_update.symbol = BTC_USDT
    /\ parsed_update.best_bid = 6000010
    /\ parsed_update.best_ask = 6000010
    /\ parsed_update.timestamp = Seconds(1500)

(***************************************************************************)
(* Properties of the prices held in the store.                             *)
(***************************************************************************)
\* the decimal a price string of a message stands for, in hundredths
SentPrice(chars) ==
    CASE chars = P_60000_10 -> 6000010
      [] chars = P_60001_20 -> 6000120
      [] chars = P_60049_5 -> 6004950
      [] chars = P_60050_5 -> 6005050
      [] chars = <<"-", "1">> -> 0 - 100
      [] OTHER -> 0

\* the bid and the ask price strings of the message of a pass
SentBid(item) ==
    IF item[1] = "binance" THEN Field(item, "b").v[1].v[1].v
    ELSE Get(TickerData(item), "bidPx").v

SentAsk(item) ==
    IF item[1] = "binance" THEN Field(item, "a").v[1].v[1].v
    ELSE Get(TickerData(item), "askPx").v

IsTrade(item) == item[1] = "binance" /\ JStrEq(Field(item, "e"), S_aggTrade)

\* the quote u of a pass carries the prices of its message as they were sent
PricesAsSent(item, u) ==
    IF IsTrade(item)
    THEN /\ u.best_bid = SentPrice(Field(item, "p").v)
         /\ u.best_ask = u.best_bid
    ELSE /\ u.best_bid = SentPrice(SentBid(item))
         /\ u.best_ask = SentPrice(SentAsk(item))
         /\ u.best_bid <= u.best_ask <=> SentPrice(SentBid(item)) <= SentPrice(SentAsk(item))

\* the pass that wrote the entry of key
WrittenBy(key) ==
    { i \in DOMAIN arrival.got :
          arrival.got[i].result = Entry(market_data, key[1], key[2]) }

\* the quotes simulate_exchange_feed builds for the exchanges of main
SimQuotes ==
    { SimUpdate(ex, target_symbol, exchanges_config[ex].base_price,
                exchanges_config[ex].volatility, offset, bp, 0) :
          ex \in SimExchanges, offset \in SimOffsets, bp \in SpreadBps }

\* C22 as stated: every quote held in the store has non-negative prices and a
\* best bid that is not above its best ask.
C22_AsStated ==
    \A key \in StoreKeys(market_data) :
        /\ Entry(market_data, key[1], key[2]).best_bid >= 0
        /\ Entry(market_data, key[1], key[2]).best_bid
               <= Entry(market_data, key[1], key[2]).best_ask

\* C22: every quote held in the store of the live feed manager carries the
\* prices of the message it was parsed from, as sent: the quote of a Binance
\* depth update or of an OKX ticker has its best bid not above its best ask
\* exactly when the bid price of the message is not above its ask price, and
\* the quote of a trade print has both equal to the trade price, negative or
\* not; the quotes the simulated feeds build for the exchanges of main have
\* 0 <= best bid < best ask.
C22_QuotePrices ==
    /\ \A key \in StoreKeys(market_data) :
           /\ WrittenBy(key) # {}
           /\ \A i \in WrittenBy(key) :
                  PricesAsSent(arrival.got[i].item, arrival.got[i].result)
    /\ \A u \in SimQuotes : 0 <= u.best_bid /\ u.best_bid < u.best_ask

C22_Witness ==
    /\ <<BTC_USDT, "binance">> \in StoreKeys(market_data)
    /\ <<BTC_USDT, "okx">> \in StoreKeys(market_data)
    /\ ~IsTrade(arrival.got[1].item)
    /\ Entry(market_data, BTC_USDT, "binance").best_bid = 6000120
    /\ Entry(market_data, BTC_USDT, "binance").best_ask = 6000010

(***************************************************************************)
(* Properties of the reconnect delay and of the keepalive intervals.       *)
(***************************************************************************)
\* the manager is on a connection or trying to open one
OnConnection == pc \in {"connect", "subscribe", "recv"}

\* C23: a connection manager enters the connect step again only from the
\* sleep of RECONNECT_DELAY_SECONDS, when all its 5 seconds have passed; the
\* count of the seconds waited starts at 0 at every failure, whatever the
\* exception and wherever it was raised, and only grows, second by second,
\* while the manager sleeps; a failure never leads from the receive loop or
\* from a failed connect straight back to the connect step.
C23_DelayBeforeConnect ==
    [][/\ (pc' = "connect" /\ pc # "connect") =>
              /\ pc = "sleep"
              /\ waited = 5
              /\ waited = RECONNECT_DELAY_SECONDS
       /\ (\/ OnConnection /\ pc' \notin {pc, "subscribe", "recv", "stopped"}
           \/ lastFailure' \notin {lastFailure, NoFailure}) =>
              /\ pc' \in {"closing", "sleep", "crashed"}
              /\ waited' = 0
       /\ (waited' # waited /\ waited' # 0) =>
              /\ pc = "sleep" /\ pc' = "sleep"
              /\ waited' = waited + 1]_vars

C23_Witness ==
    /\ pc = "connect"
    /\ attempts = 2
    /\ waited = RECONNECT_DELAY_SECONDS
    /\ exchange = "bitget"

\* C24: on a Bybit connection that stays in the receive loop the JSON
\* keepalive {"op": "ping"} is sent every 15 seconds: whenever a wait of the
\* Bybit manager ends without a frame, the keepalive is sent and no more than
\* 15 seconds have passed since the keepalive before it, or since the
\* subscription.
C24_BybitPingEvery15 ==
    [][(TimedOut /\ exchange = "bybit") =>
           /\ handled'.sent = <<AdapterKeepalive("bybit")>>
           /\ elapsed + RecvTimeoutSeconds("bybit") <= 15]_vars

\* C25: on a connection on which the venue sends nothing, every wait starts
\* at the subscription, at a keepalive or, for Binance, one timed-out wait
\* after one of them.  The OKX and the Bitget manager send the text "ping",
\* once, at the end of every such wait, 25 seconds after the keepalive before
\* it; the Binance manager sends nothing at the end of the first wait of 75
\* seconds and its ping frame, once, at the end of the second, 150 seconds
\* after the ping before it.  No keepalive is sent earlier.
C25_SilentKeepalive ==
    [][TimedOut =>
           /\ (exchange \in {"okx", "bitget"} /\ elapsed = 0) =>
                  /\ handled'.sent = <<"ping">>
                  /\ elapsed + RecvTimeoutSeconds(exchange) = 25
                  /\ elapsed' = 0
           /\ (exchange = "binance" /\ elapsed = 0) =>
                  /\ handled'.sent = << >>
                  /\ elapsed + RecvTimeoutSeconds(exchange) = 75
                  /\ elapsed' = 75
           /\ (exchange = "binance" /\ elapsed = 75) =>
                  /\ handled'.sent = <<"ping frame">>
                  /\ elapsed + RecvTimeoutSeconds(exchange) = 150
                  /\ elapsed' = 0]_vars

\* the Binance manager, given a queue it never put a message on, has sent
\* its ping frame on its first connection
C25_Witness ==
    /\ exchange = "binance"
    /\ pc = "recv"
    /\ attempts = 1
    /\ output_queue = EmptyQueue
    /\ handled = Pass("timeout", FALSE, <<"ping frame">>)
    /\ elapsed = 0

(***************************************************************************)
(* What reaches the queue and what a pass of the consumer leaves behind.   *)
(***************************************************************************)
\* C26: when the OKX manager receives the text "ping" from the venue and its
\* reply does not fail, it has sent "pong" and the queue holds the items it
\* held before: the "ping" is not put on it as ('okx', "ping").
C26_PingNotForwarded ==
    [][(Received("ping") /\ exchange = "okx" /\ lastFailure' = NoFailure) =>
           /\ handled'.sent = <<"pong">>
           /\ output_queue'.items = output_queue.items]_vars

\* the step is a pass of the main loop that took an item from the queue
IsPass == Len(arrival'.got) = Len(arrival.got) + 1

\* C27: a pass of the main loop whose item gave no quote (the parser
\* returned None, as it does for every message that is no quote by its form)
\* or whose item is tagged with an exchange other than 'binance' and 'okx'
\* leaves the store as it was: no entry is added, removed or changed.
C27_StoreUnchanged ==
    [][(IsPass /\ (\/ parsed_update'.t # "update"
                   \/ NotAQuote(raw')
                   \/ raw'[1] \notin {"binance", "okx"})) =>
           /\ market_data' = market_data
           /\ lastPut' = lastPut]_vars

\* a quote of okx is in the store and the item taken after it, tagged
\* 'bybit', has left it there
C27_Witness ==
    /\ Len(arrival.got) = 2
    /\ raw = UnhandledItem
    /\ parsed_update = None
    /\ StoreKeys(market_data) = {<<BTC_USDT, "okx">>}
    /\ Entry(market_data, BTC_USDT, "okx") = arrival.got[1].result

\* the fields of an OrderBookUpdate
QuoteFields == {"t", "exchange_name", "symbol", "best_bid", "best_ask", "timestamp"}

\* u is a complete quote: every field of an OrderBookUpdate, each with a value
CompleteQuote(u) ==
    /\ DOMAIN u = QuoteFields
    /\ u.t = "update"
    /\ u.exchange_name \in {"binance", "okx"}
    /\ Len(u.symbol) > 0
    /\ u.best_bid \in Int
    /\ u.best_ask \in Int
    /\ DOMAIN u.timestamp = {"sec", "msec"}

\* C28: in every state of the main block, the states after a shutdown and
\* after a Ctrl-C inside a pass included, each entry of the store under a
\* symbol s and an exchange e is a complete quote whose symbol is s and
\* whose exchange is e, and it is, whole, the quote a finished pass of the
\* loop parsed from one message of that exchange.
C28_WholeEntries ==
    \A s \in DOMAIN market_data : \A e \in DOMAIN market_data[s] :
        /\ CompleteQuote(market_data[s][e])
        /\ market_data[s][e].symbol = s
        /\ market_data[s][e].exchange_name = e
        /\ \E k \in DOMAIN arrival.got :
               /\ arrival.got[k].result = market_data[s][e]
               /\ arrival.got[k].item[1] = e

\* Ctrl-C came inside the pass of a quote for a new symbol: the store holds
\* the quote written before it, and nothing under the new symbol
C28_Witness ==
    /\ lm_pc = "done"
    /\ parsed_update.t = "update"
    /\ parsed_update.symbol \in DOMAIN market_data
    /\ market_data[parsed_update.symbol] = EmptyDict
    /\ StoreKeys(market_data) = {<<BTC_USDT, "okx">>}

(***************************************************************************)
(* Properties of the age of the stored quotes.                             *)
(***************************************************************************)
\* the simulated feed of ex does not write in this step
FeedSilent(ex) == ex \notin SimExchanges \/ sim_i'[ex] = sim_i[ex]

\* every simulated feed has ended
FeedsStopped == \A ex \in SimExchanges : sim_i[ex] = MaxSimIterations

\* C29: no step removes an entry of the store: a key that holds a quote
\* holds one after every step, and the quote of an exchange stays the one
\* last stored for it in every step that is not a write of that exchange's
\* feed; a cycle of the detector that runs after every feed has ended reads
\* those quotes, whatever their age, and reports each direction whose spread
\* is above the threshold from them.
C29_NoExpiry ==
    [][/\ \A key \in StoreKeys(latest_market_data) :
              Entry(latest_market_data', key[1], key[2]).t = "update"
       /\ \A ex \in DetExchanges :
              FeedSilent(ex) =>
                  Entry(latest_market_data', target_symbol, ex)
                      = Entry(latest_market_data, target_symbol, ex)
       /\ (IsCycle /\ FeedsStopped /\ HeldAllDistinct) =>
              /\ BothDirectionsRight
              /\ printed' # {}]_vars

\* both feeds have written their last quote and ended; the second cycle of
\* the detector, run after that, has reported an opportunity priced from
\* those quotes
C29_Witness ==
    /\ FeedsStopped
    /\ det_i = 2
    /\ det_pc = "sleep"
    /\ exchanges_to_compare = <<"Binance", "Bybit">>
    /\ Entry(latest_market_data, target_symbol, "Binance").best_ask > 1000000
    /\ Entry(latest_market_data, target_symbol, "Bybit").best_bid > 1000000
    /\ \E o \in printed :
           /\ o.kind = "found"
           /\ o.iter = 2
           /\ o.buyPrice = Entry(latest_market_data, target_symbol, "Binance").best_ask
           /\ o.sellPrice = Entry(latest_market_data, target_symbol, "Bybit").best_bid

\* the time stamp a message carries, in milliseconds: E of a depth update,
\* T of a trade, ts of a ticker
SentStamp(item) ==
    IF item[1] = "binance"
    THEN IF IsTrade(item) THEN Field(item, "T").v ELSE Field(item, "E").v
    ELSE IF Get(TickerData(item), "ts").v = T_1500 THEN 1500 ELSE 2250

\* the passes that gave a quote for the key of update u
WritesFor(u) == QuotesFor(<<u.symbol, u.exchange_name>>)

\* each kind of message of each exchange is processed in the order of its
\* stamps: depth updates by E, trades by T, tickers by ts
StreamsInOrder(got) ==
    \A j, k \in DOMAIN got :
        (/\ j < k
         /\ got[j].result.t = "update"
         /\ got[k].result.t = "update"
         /\ got[j].item[1] = got[k].item[1]
         /\ IsTrade(got[j].item) = IsTrade(got[k].item))
            => SentStamp(got[j].item) <= SentStamp(got[k].item)

\* the step is a pass that writes a key which already holds a quote
Overwrites ==
    /\ IsPass
    /\ parsed_update'.t = "update"
    /\ WritesFor(parsed_update') # {}

\* C30 as stated: when the messages of each stream are processed in the
\* order of their stamps, a write never replaces the quote of a key by one
\* with an older timestamp.
C30_AsStated ==
    [][(Overwrites /\ StreamsInOrder(arrival'.got)) =>
           ~Older(parsed_update'.timestamp,
                  Entry(market_data, parsed_update'.symbol,
                        parsed_update'.exchange_name).timestamp)]_vars

\* C30: a write stores the quote of its message with the stamp of that
\* message (E of a depth update, T of a trade, ts of a ticker, as seconds)
\* whatever the timestamp of the quote it replaces: the timestamp stored for
\* a key decreases exactly when the message carries an older stamp than the
\* message of the write before it.
C30_LastStamp ==
    [][(IsPass /\ parsed_update'.t = "update") =>
           /\ Entry(market_data', parsed_update'.symbol, parsed_update'.exchange_name)
                  = parsed_update'
           /\ parsed_update'.timestamp
                  = [sec |-> SentStamp(raw') \div 1000, msec |-> SentStamp(raw') % 1000]
           /\ WritesFor(parsed_update') # {} =>
                  (Older(parsed_update'.timestamp,
                         Entry(market_data, parsed_update'.symbol,
                               parsed_update'.exchange_name).timestamp)
                   <=> SentStamp(raw')
                           < SentStamp(arrival.got[Latest(WritesFor(parsed_update'))].item))]_vars

\* a depth update of Binance stamped E = 2250 was stored, and the trade
\* stamped T = 1500 processed after it has replaced it
C30_Witness ==
    /\ Len(arrival.got) = 2
    /\ ~IsTrade(arrival.got[1].item)
    /\ arrival.got[1].result.t = "update"
    /\ arrival.got[1].result.timestamp = [sec |-> 2, msec |-> 250]
    /\ IsTrade(raw)
    /\ Entry(market_data, BTC_USDT, "binance") = parsed_update
    /\ parsed_update.timestamp = [sec |-> 1, msec |-> 500]

(***************************************************************************)
(* Properties of the time stamp and of the symbol across venues.           *)
(***************************************************************************)
\* a depth update with a symbol and first prices on both sides, and no E
DepthWithoutTime(item) ==
    /\ item[1] = "binance"
    /\ IsObject(item)
    /\ JStrEq(Field(item, "e"), S_depthUpdate)
    /\ HasFirstPrice(Field(item, "b"))
    /\ HasFirstPrice(Field(item, "a"))
    /\ Field(item, "s").t = "str"
    /\ Len(Field(item, "s").v) > 0
    /\ ~Has(item[2].v, "E")

\* a ticker with an instrument and both prices, and no ts
TickerWithoutTime(item) ==
    /\ CarriesBidAsk(item)
    /\ Get(TickerData(item), "instId").t = "str"
    /\ Get(TickerData(item), "instId").v \in KnownInstIds
    /\ ~Has(TickerData(item), "ts")

\* the times at which a message can have been received
ReceiptTimes == { Seconds(k * MsPerTick) : k \in 0..MaxClock }

\* C31: a Binance depth update or an OKX ticker that carries its prices and
\* no time stamp of the venue (E, ts) gives a quote whose timestamp is the
\* time of receipt; a message that carries the stamp gives a quote whose
\* timestamp is that stamp, milliseconds turned into seconds.
C31_TimestampFallback ==
    /\ (raw # NoItem /\ (DepthWithoutTime(raw) \/ TickerWithoutTime(raw))) =>
           /\ parsed_update.t = "update"
           /\ parsed_update.timestamp \in ReceiptTimes
    /\ (raw # NoItem /\ WellFormedDepth(raw)) =>
           /\ parsed_update.t = "update"
           /\ parsed_update.timestamp
                  = [sec |-> Field(raw, "E").v \div 1000, msec |-> Field(raw, "E").v % 1000]

\* a finished pass took a message of Binance for the native symbol BTCUSDT
\* that gave a quote
BinanceQuoteTaken ==
    \E k \in DOMAIN arrival.got :
        /\ arrival.got[k].item[1] = "binance"
        /\ arrival.got[k].result.t = "update"
        /\ Field(arrival.got[k].item, "s") = JStr(S_BTCUSDT)

\* a finished pass took a ticker of OKX for BTC-USDT-SWAP that gave a quote
OkxQuoteTaken ==
    \E k \in DOMAIN arrival.got :
        /\ arrival.got[k].item[1] = "okx"
        /\ arrival.got[k].result.t = "update"
        /\ Get(TickerData(arrival.got[k].item), "instId") = JStr(S_BTC_USDT_SWAP)

\* C32: once the main loop has processed a message of Binance for BTCUSDT
\* and a ticker of OKX for BTC-USDT-SWAP that each gave a quote, the store
\* holds a quote under ('BTC/USDT', 'binance') and one under
\* ('BTC/USDT', 'okx'), each with the symbol 'BTC/USDT', and the test of the
\* detector for the symbol 'BTC/USDT' and the exchanges binance and okx
\* finds both and does not skip the cycle.
C32_SameSymbol ==
    (BinanceQuoteTaken /\ OkxQuoteTaken) =>
        /\ <<"B", "T", "C", "/", "U", "S", "D", "T">> \in DOMAIN market_data
        /\ {"binance", "okx"} \subseteq DOMAIN market_data[<<"B", "T", "C", "/", "U", "S", "D", "T">>]
        /\ \A e \in {"binance", "okx"} :
               /\ market_data[<<"B", "T", "C", "/", "U", "S", "D", "T">>][e].t = "update"
               /\ market_data[<<"B", "T", "C", "/", "U", "S", "D", "T">>][e].symbol
                      = <<"B", "T", "C", "/", "U", "S", "D", "T">>
               /\ market_data[<<"B", "T", "C", "/", "U", "S", "D", "T">>][e].exchange_name = e
        /\ AllDataAvailable(market_data, BTC_USDT, <<"binance", "okx">>)
        /\ ~CycleSkipped(market_data, BTC_USDT, <<"binance", "okx">>)

\* a depth update and a trade of Binance and a ticker of OKX were processed
C32_Witness ==
    /\ BinanceQuoteTaken
    /\ OkxQuoteTaken
    /\ Len(arrival.got) = 3
    /\ IsTrade(arrival.got[1].item)
    /\ arrival.got[2].item[1] = "okx"
    /\ ~IsTrade(arrival.got[3].item)
    /\ StoreKeys(market_data) = {<<BTC_USDT, "binance">>, <<BTC_USDT, "okx">>}

\* the prices of every reported line are those of the store s
PricesOf(lines, s) ==
    \A o \in lines :
        o.kind = "found" =>
            /\ Entry(s, target_symbol, o.buyExchange) # None
            /\ Entry(s, target_symbol, o.sellExchange) # None
            /\ o.buyPrice = Entry(s, target_symbol, o.buyExchange).best_ask
            /\ o.sellPrice = Entry(s, target_symbol, o.sellExchange).best_bid
            /\ o.spread = o.sellPrice - o.buyPrice

\* a step in which a simulated feed writes to the store
IsStoreWrite == \E ex \in SimExchanges : sim_i'[ex] # sim_i[ex]

\* C33: a detector cycle (the reads of both quotes, the two spreads and the
\* report) is one step between two of its sleeps: no feed writes during it,
\* the quotes of the store are the same after it as before it, and every
\* reported price and spread is the one of the store of that instant; a
\* store write is a step of its own that reports nothing and is no part of
\* a cycle.
C33_OneInstant ==
    [][/\ IsCycle =>
              /\ ~IsStoreWrite
              /\ det_pc = "loop" /\ det_pc' = "sleep"
              /\ \A ex \in DetExchanges :
                     Entry(latest_market_data', target_symbol, ex)
                         = Entry(latest_market_data, target_symbol, ex)
              /\ PricesOf(printed', latest_market_data)
              /\ PricesOf(printed', latest_market_data')
       /\ IsStoreWrite =>
              /\ ~IsCycle
              /\ printed' = printed
              /\ det_pc' = det_pc]_vars

\* a cycle has reported between a write of the feed of Binance, whose quote
\* it used, and the write of the feed of Bybit, which is still to come
C33_Witness ==
    /\ det_pc = "sleep"
    /\ det_i = 1
    /\ exchanges_to_compare = <<"Binance", "Bybit">>
    /\ sim_i["Binance"] = 1
    /\ sim_i["Bybit"] = 0
    /\ \E o \in printed :
           /\ o.kind = "found"
           /\ o.buyExchange = "Bybit"
           /\ o.sellPrice = Entry(latest_market_data, target_symbol, "Binance").best_bid
           /\ o.sellPrice > 5000000

\* the quotes a store may hold for a simulated exchange
StoredQuotes(ex) == CallerUpdates(ex) \ {None}

\* whether a cycle on the quotes uX of Binance and uY of Bybit reports the
\* direction buy on `buy`, sell on `sell`
Reports(uX, uY, buy, sell) ==
    FoundLines(Compare(1, target_symbol, <<"Binance", "Bybit">>,
                       [Binance |-> uX, Bybit |-> uY]), buy, sell) # {}

\* the report of one direction is the same for any two pairs of quotes that
\* agree on whether the spread of that direction exceeds the threshold,
\* whatever the other direction does
Independent ==
    \A uX, vX \in StoredQuotes("Binance") : \A uY, vY \in StoredQuotes("Bybit") :
        /\ ((uX.best_bid - uY.best_ask > ARBITRAGE_THRESHOLD)
               = (vX.best_bid - vY.best_ask > ARBITRAGE_THRESHOLD))
              => Reports(uX, uY, "Bybit", "Binance") = Reports(vX, vY, "Bybit", "Binance")
        /\ ((uY.best_bid - uX.best_ask > ARBITRAGE_THRESHOLD)
               = (vY.best_bid - vX.best_ask > ARBITRAGE_THRESHOLD))
              => Reports(uX, uY, "Binance", "Bybit") = Reports(vX, vY, "Binance", "Bybit")

\* some pair of quotes gives both directions, some exactly one, some none
OutcomesOccur ==
    /\ \E uX \in StoredQuotes("Binance"), uY \in StoredQuotes("Bybit") :
           Reports(uX, uY, "Binance", "Bybit") /\ Reports(uX, uY, "Bybit", "Binance")
    /\ \E uX \in StoredQuotes("Binance"), uY \in StoredQuotes("Bybit") :
           Reports(uX, uY, "Binance", "Bybit") /\ ~Reports(uX, uY, "Bybit", "Binance")
    /\ \E uX \in StoredQuotes("Binance"), uY \in StoredQuotes("Bybit") :
           ~Reports(uX, uY, "Binance", "Bybit") /\ Reports(uX, uY, "Bybit", "Binance")
    /\ \E uX \in StoredQuotes("Binance"), uY \in StoredQuotes("Bybit") :
           ~Reports(uX, uY, "Binance", "Bybit") /\ ~Reports(uX, uY, "Bybit", "Binance")

\* C34: in every cycle that finds a quote for each listed exchange, the
\* direction 'buy Y, sell X' is reported exactly when bid of X minus ask of Y
\* exceeds the threshold, whether or not 'buy X, sell Y' was reported in the
\* same cycle; and over the quotes a store may hold, each of the outcomes
\* (both directions, exactly one, none) is the report of some pair.
C34_Independent ==
    [][(IsCycle /\ HeldAllDistinct) =>
          LET X == exchanges_to_compare[1]
              Y == exchanges_to_compare[2]
              uX == Entry(latest_market_data, target_symbol, X)
              uY == Entry(latest_market_data, target_symbol, Y)
          IN /\ \A first \in BOOLEAN :
                    (FoundLines(printed', X, Y) # {}) = first =>
                        ((FoundLines(printed', Y, X) # {})
                             <=> (uX.best_bid - uY.best_ask > ARBITRAGE_THRESHOLD))
             /\ Independent
             /\ OutcomesOccur]_vars

\* a cycle has reported both directions at once (the stored quotes are
\* crossed: each bid is above the ask of the other exchange)
C34_Witness ==
    /\ det_pc = "sleep"
    /\ Len(exchanges_to_compare) = 2
    /\ Cardinality({ o \in printed : o.kind = "found" }) = 2
    /\ FoundLines(printed, exchanges_to_compare[1], exchanges_to_compare[2]) # {}
    /\ FoundLines(printed, exchanges_to_compare[2], exchanges_to_compare[1]) # {}

\* the stored quotes of the first two listed exchanges have bid <= ask
Uncrossed ==
    /\ HeldFirstTwo
    /\ \A k \in 1..2 :
           Entry(latest_market_data, target_symbol, exchanges_to_compare[k]).best_bid
               <= Entry(latest_market_data, target_symbol, exchanges_to_compare[k]).best_ask

\* C35: with a threshold that is not negative, a cycle that starts while the
\* stored quotes of X and Y each have bestBid <= bestAsk prints at most one
\* 'ARBITRAGE FOUND' line: never 'buy X, sell Y' and 'buy Y, sell X' together.
C35_AtMostOne ==
    [][(ARBITRAGE_THRESHOLD >= 0 /\ IsCycle /\ Uncrossed) =>
          /\ Cardinality({ o \in printed' : o.kind = "found" }) <= 1
          /\ ~ /\ FoundLines(printed', exchanges_to_compare[1], exchanges_to_compare[2]) # {}
               /\ FoundLines(printed', exchanges_to_compare[2], exchanges_to_compare[1]) # {}]_vars

\* a cycle on the uncrossed quotes 100.00/101.00 and 102.00/103.00 has
\* reported one direction, buy on the first exchange and sell on the second
C35_Witness ==
    /\ det_pc = "sleep"
    /\ Len(exchanges_to_compare) = 2
    /\ Uncrossed
    /\ Entry(latest_market_data, target_symbol, exchanges_to_compare[1]).best_ask = 10100
    /\ Entry(latest_market_data, target_symbol, exchanges_to_compare[2]).best_bid = 10200
    /\ Cardinality(printed) = 1
    /\ FoundLines(printed, exchanges_to_compare[1], exchanges_to_compare[2]) = printed

\* calculate_arbitrage_opportunities has returned
DetDone == det_pc \in {"finished", "returned"}

\* the steps of the detector: the guard on the number of exchanges, the
\* count of a cycle whether or not it found its quotes, the end of the loop
DetCounts ==
    /\ (det_pc = "start" /\ det_pc' # "start") =>
           /\ det_pc' = IF Len(exchanges_to_compare) < 2 THEN "returned" ELSE "loop"
           /\ det_i' = 0
           /\ printed' = {}
    /\ (det_pc = "loop" /\ det_pc' # "loop") =>
           IF det_i < iterations
           THEN det_i' = det_i + 1 /\ det_pc' = "sleep"
           ELSE det_i' = det_i /\ det_pc' = "finished"
    /\ (det_pc = "sleep" /\ det_pc' # "sleep") => (det_pc' = "loop" /\ det_i' = det_i)
    /\ det_i' # det_i => det_pc = "loop"
    /\ DetDone => (det_pc' = det_pc /\ det_i' = det_i /\ printed' = printed)
    /\ iterations' = iterations

\* C36: calculate_arbitrage_opportunities returns in every run, whatever
\* the feeds do and whether or not a quote ever arrives: with fewer than two
\* exchanges at once, with no cycle and nothing printed; otherwise after
\* exactly `iterations` cycles, a skipped cycle counting like a comparing one.
C36_Terminates ==
    /\ [][DetCounts]_vars
    /\ [](/\ det_i <= iterations
          /\ det_pc # "error"
          /\ det_pc = "finished" => (det_i = iterations /\ Len(exchanges_to_compare) >= 2)
          /\ det_pc = "returned" =>
                 (det_i = 0 /\ printed = {} /\ Len(exchanges_to_compare) < 2))
    /\ <>DetDone

\* the detector has finished after two cycles that were both skipped: OKX is
\* listed and no feed ever writes a quote for it
C36_Witness ==
    /\ det_pc = "finished"
    /\ iterations = 2
    /\ det_i = 2
    /\ exchanges_to_compare = <<"Binance", "Bybit", "OKX">>
    /\ Entry(latest_market_data, target_symbol, "OKX") = None
    /\ printed = {}
    /\ \A ex \in SimExchanges : sim_i[ex] = MaxSimIterations

(***************************************************************************)
(* feed_manager_concept.py: process_raw_data and main_concept              *)
(***************************************************************************)
MaxPackages == 2        \* packages a caller other than main_concept supplies

\* lines 18-51: the name, symbol and parser_function of each entry
EXCHANGE_FEEDS_CONFIG ==
    << [name |-> "binance", symbol |-> BTC_USDT,
        parser_function |-> "parse_binance_data"],
       [name |-> "okx", symbol |-> S_BTC_USDT_SWAP,
        parser_function |-> "parse_okx_ticker"],
       [name |-> "bybit", symbol |-> S_BTCUSDT,
        parser_function |-> "parse_bybit_ticker"],
       [name |-> "bitget", symbol |-> S_BTCUSDT,
        parser_function |-> "parse_bitget_ticker"] >>

\* lines 163-168: the dict of parser functions, by its keys
parsers == [binance |-> "parse_binance_data", okx |-> "parse_okx_ticker"]

\* line 182: next(...) over the entries whose name is exchange_name, else None
FeedConf(exchange_name) ==
    IF \E k \in 1..Len(EXCHANGE_FEEDS_CONFIG) : EXCHANGE_FEEDS_CONFIG[k].name = exchange_name
    THEN EXCHANGE_FEEDS_CONFIG[CHOOSE k \in 1..Len(EXCHANGE_FEEDS_CONFIG) :
             /\ EXCHANGE_FEEDS_CONFIG[k].name = exchange_name
             /\ \A j \in 1..(k - 1) : EXCHANGE_FEEDS_CONFIG[j].name # exchange_name]
    ELSE None

\* line 200: the call of the function found in parsers
CallParser(parser_func, raw_json_data, standard_symbol, clock) ==
    IF parser_func = "parse_binance_data"
    THEN parse_binance_data(raw_json_data, standard_symbol, clock)
    ELSE parse_okx_ticker(raw_json_data, standard_symbol, clock)

\* what one pass has done: the store, the lines printed, order_book_update
Passed(store, lines, update) ==
    [store |-> store, printed |-> lines, order_book_update |-> update]

\* lines 197-217, given the entry of the configuration
ProcessWithConf(package, feed_conf, store, clock) ==
    IF feed_conf.parser_function \in DOMAIN parsers
    THEN IF CallParser(parsers[feed_conf.parser_function], package.data,
                       feed_conf.symbol, clock).t = "raised"
         THEN Passed(store,
                     IF CallParser(parsers[feed_conf.parser_function], package.data,
                                   feed_conf.symbol, clock).exc = "JSONDecodeError"
                     THEN <<"Error decoding JSON">>
                     ELSE <<"An unexpected error occurred">>,
                     None)
         ELSE IF CallParser(parsers[feed_conf.parser_function], package.data,
                            feed_conf.symbol, clock).t = "update"
         THEN Passed(StorePut(store, CallParser(parsers[feed_conf.parser_function],
                                                package.data, feed_conf.symbol, clock)),
                     << >>,
                     CallParser(parsers[feed_conf.parser_function], package.data,
                                feed_conf.symbol, clock))
         ELSE Passed(store, <<"Failed to parse or no relevant data in message.">>, None)
    ELSE Passed(store, <<"No parser defined or found", "Failed to parse or no relevant data in message.">>, None)

\* lines 175-217: the body of the loop on the package the queue delivered
ProcessPackage(package, store, clock) ==
    IF ~({"exchange_name", "data"} \subseteq DOMAIN package)
    THEN Passed(store, <<"An unexpected error occurred">>, None)
    ELSE IF FeedConf(package.exchange_name) = None
    THEN Passed(store, <<"Warning: No config found">>, None)
    ELSE ProcessWithConf(package, FeedConf(package.exchange_name), store, clock)

\* lines 290-295: the sample depth data of Binance, as json.dumps writes it
SampleBinancePackage(clock) ==
    [exchange_name |-> "binance",
     data |-> JsonText(JObj([e |-> JStr(S_depthUpdate), E |-> JNum(clock),
                             s |-> JStr(S_BTCUSDT),
                             bids |-> JArr(<<Level(P_60000_10, Q_1_5),
                                             Level(<<"6", "0", "0", "0", "0", ".", "0", "0">>,
                                                   <<"2", ".", "0">>)>>),
                             asks |-> JArr(<<Level(P_60001_20, Q_0_5),
                                             Level(<<"6", "0", "0", "0", "1", ".", "3", "0">>,
                                                   <<"3", ".", "0">>)>>)]))]

\* lines 298-303: the sample ticker of OKX
SampleOkxPackage(clock) ==
    [exchange_name |-> "okx",
     data |-> JsonText(JObj([arg |-> JObj([channel |-> JStr(S_tickers),
                                           instId |-> JStr(S_BTC_USDT_SWAP)]),
                             data |-> JArr(<<JObj([instType |-> JStr(<<"S", "W", "A", "P">>),
                                                   instId |-> JStr(S_BTC_USDT_SWAP),
                                                   last |-> JStr(<<"6", "0", "0", "5", "0", ".", "0">>),
                                                   bestBid |-> JStr(P_60049_5),
                                                   bestAsk |-> JStr(P_60050_5),
                                                   ts |-> JStr(T_1500)])>>)]))]

\* the packages a feed process may put: the two samples, a ticker of Bybit,
\* a package of an exchange without configuration, text that is no JSON and
\* a package without its 'data' key
ConceptPackages ==
    { SampleBinancePackage(0), SampleOkxPackage(0),
      [exchange_name |-> "bybit", data |-> JsonText(JObj([topic |-> JStr(S_tickers)]))],
      [exchange_name |-> "kraken", data |-> JsonText(JObj([topic |-> JStr(S_tickers)]))],
      [exchange_name |-> "binance", data |-> PlainText(<<"p", "i", "n", "g">>)],
      [exchange_name |-> "okx"] }

\* main_concept, lines 230-307: the queue, the store and the event are
\* created, the two samples are put and process_raw_data is called
MainConcept ==
    /\ concept_pc = "main"
    /\ raw_data_output_queue' = <<SampleBinancePackage(now), SampleOkxPackage(now)>>
    /\ unified_order_book_store' = EmptyDict
    /\ stop_event' = FALSE
    /\ concept_pc' = "loop"
    /\ UNCHANGED <<caller, processed, timeouts>>
    /\ UNCHANGED <<detVars, connVars, feedVars, normVars, now>>

\* line 170: the test of the while loop finds stop_event not set
LoopEnter ==
    /\ concept_pc = "loop"
    /\ ~stop_event
    /\ concept_pc' = "get"
    /\ UNCHANGED <<raw_data_output_queue, unified_order_book_store, stop_event,
                   caller, processed, timeouts>>
    /\ UNCHANGED <<detVars, connVars, feedVars, normVars, now>>

\* lines 170 and 221: the test finds stop_event set and process_raw_data
\* returns; in main_concept lines 309-332 follow
LoopExit ==
    /\ concept_pc = "loop"
    /\ stop_event
    /\ concept_pc' = IF caller = "main_concept" THEN "finished" ELSE "returned"
    /\ UNCHANGED <<raw_data_output_queue, unified_order_book_store, stop_event,
                   caller, processed, timeouts>>
    /\ UNCHANGED <<detVars, connVars, feedVars, normVars, now>>

\* lines 173-217: output_queue.get returns a package and the body runs
GetPackage ==
    /\ concept_pc = "get"
    /\ raw_data_output_queue # << >>
    /\ raw_data_output_queue' = Tail(raw_data_output_queue)
    /\ unified_order_book_store' =
           ProcessPackage(Head(raw_data_output_queue), unified_order_book_store, now).store
    /\ processed' =
           Append(processed,
                  [package |-> Head(raw_data_output_queue),
                   printed |-> ProcessPackage(Head(raw_data_output_queue),
                                              unified_order_book_store, now).printed,
                   order_book_update |->
                       ProcessPackage(Head(raw_data_output_queue),
                                      unified_order_book_store, now).order_book_update])
    /\ timeouts' = IF stop_event THEN timeouts + 1 ELSE timeouts
    /\ concept_pc' = "loop"
    /\ UNCHANGED <<stop_event, caller>>
    /\ UNCHANGED <<detVars, connVars, feedVars, normVars, now>>

\* lines 173 and 211-213: the queue stays empty for the timeout of 1.0 s,
\* get raises Empty and the loop continues
GetEmpty ==
    /\ concept_pc = "get"
    /\ raw_data_output_queue = << >>
    /\ timeouts' = IF stop_event THEN timeouts + 1 ELSE timeouts
    /\ concept_pc' = "loop"
    /\ UNCHANGED <<raw_data_output_queue, unified_order_book_store, stop_event,
                   caller, processed>>
    /\ UNCHANGED <<detVars, connVars, feedVars, normVars, now>>

\* lines 246 and 324: a caller that runs process_raw_data in a process of its
\* own sets the event; main_concept never does (line 324 is a comment)
SetStop ==
    /\ caller = "process"
    /\ concept_pc \in {"loop", "get"}
    /\ ~stop_event
    /\ stop_event' = TRUE
    /\ UNCHANGED <<raw_data_output_queue, unified_order_book_store, concept_pc,
                   caller, processed, timeouts>>
    /\ UNCHANGED <<detVars, connVars, feedVars, normVars, now>>

\* lines 69-83: a feed process of such a caller puts a package
ConceptFeedPut ==
    /\ caller = "process"
    /\ concept_pc \in {"loop", "get"}
    /\ Len(raw_data_output_queue) + Len(processed) < MaxPackages
    /\ \E package \in ConceptPackages :
           raw_data_output_queue' = Append(raw_data_output_queue, package)
    /\ UNCHANGED <<unified_order_book_store, stop_event, concept_pc,
                   caller, processed, timeouts>>
    /\ UNCHANGED <<detVars, connVars, feedVars, normVars, now>>

\* main_concept as the script runs it, or process_raw_data as the target of
\* a process (lines 268-270) with feeds and a caller that may set the event
InitConcept ==
    /\ \/ caller = "main_concept" /\ concept_pc = "main"
       \/ caller = "process" /\ concept_pc = "loop"
    /\ raw_data_output_queue = << >>
    /\ unified_order_book_store = EmptyDict
    /\ stop_event = FALSE
    /\ processed = << >>
    /\ timeouts = 0
    /\ second = NotCalled
    /\ concept_update = NotCalled
    /\ now = 0
    /\ DetIdle /\ ConnIdle /\ FeedIdle

NextConcept ==
    \/ MainConcept
    \/ LoopEnter
    \/ LoopExit
    \/ GetPackage
    \/ GetEmpty
    \/ SetStop
    \/ ConceptFeedPut

SpecConcept == InitConcept /\ [][NextConcept]_vars

(***************************************************************************)
(* Claims about feed_manager_concept.py.                                   *)
(***************************************************************************)
\* what the parser of the package's exchange gives when called on its data
\* with the symbol of the exchange's configuration
ParserResult(package) ==
    IF package.exchange_name = "binance"
    THEN parse_binance_data(package.data, FeedConf("binance").symbol, now)
    ELSE parse_okx_ticker(package.data, FeedConf("okx").symbol, now)

\* a package of Binance whose data has non-empty bids and asks, or of OKX
\* whose ticker has bestBid and bestAsk
QuotePackage(package) ==
    /\ {"exchange_name", "data"} \subseteq DOMAIN package
    /\ package.exchange_name \in {"binance", "okx"}
    /\ ParserResult(package).t = "update"

\* C37: every pass of process_raw_data that took a package of Binance with
\* non-empty bids and asks, or of OKX with bestBid and bestAsk, got the
\* OrderBookUpdate of that exchange's parser and the store holds an update
\* of that exchange under [symbol][exchange_name]; and once main_concept's
\* two samples are processed the store holds one entry for binance and one
\* for okx.
C37_ParsedAndStored ==
    /\ \A k \in DOMAIN processed :
           QuotePackage(processed[k].package) =>
               /\ processed[k].order_book_update = ParserResult(processed[k].package)
               /\ Entry(unified_order_book_store,
                        FeedConf(processed[k].package.exchange_name).symbol,
                        processed[k].package.exchange_name).t = "update"
    /\ (caller = "main_concept" /\ Len(processed) = 2) =>
           StoreKeys(unified_order_book_store)
               = {<<BTC_USDT, "binance">>, <<S_BTC_USDT_SWAP, "okx">>}

\* C38: main_concept's call of process_raw_data returns once the two
\* samples are consumed (it does not go back to wait on the queue) and
\* main_concept reaches its end; and process_raw_data returns only with
\* stop_event set, after at most one pass of the loop body (a package or one
\* timeout of the queue) that ended with the event set.
C38_MainConceptReturns ==
    /\ (caller = "main_concept" /\ Len(processed) = 2) =>
           concept_pc \in {"loop", "finished"}
    /\ concept_pc \in {"returned", "finished"} => stop_event
    /\ timeouts <= 1

====
